---- MODULE Spec2Model ----
(***************************************************************************)
(* Model of flopy/export/vtk.py: the streaming XML writers                 *)
(* (XmlWriterInterface, XmlWriterAscii, XmlWriterBinary) and the Vtk       *)
(* exporter (add_array, write, _configure_data_arrays,                     *)
(* get_3d_vertex_connectivity).                                            *)
(*                                                                         *)
(* A writer is a record; every method is an operator from writer to        *)
(* writer.  A raised exception is recorded in the field err and makes the  *)
(* rest of the method (and of the calling method) a no-op, so the record   *)
(* returned is the object as the raise leaves it.                          *)
(***************************************************************************)
EXTENDS Integers, Sequences, FiniteSets, TLC

\* ------------------------------------------------------------------ bounds
MaxOps == 4          \* calls made on one writer in the writer specification
NLAY == 2            \* grid layers
NROW == 1            \* grid rows
NCOL == 2            \* grid columns
EXT_NLAY == 2        \* layers, rows and columns of the grid on which
EXT_NROW == 2        \* extendedDataArray is applied by itself and of the
EXT_NCOL == 2        \* grids that are exported from construction to write
MaxStep == 1         \* last time step and last stress period of a result file
MaxHyd == 3          \* largest nhyd and longest obsdata of a ModflowHyd call

\* --------------------------------------------------------------- constants
NaN == -999          \* stands for np.nan (differs from every number)
NANVAL == -100       \* stands for the no-data value nanval (-1e+20)
ASCII_NAN == -1000000000   \* the literal -1.e9 written for NaN in ascii
byte_count_size == 8
cell_type == 11

NoTag == ""          \* close_element(tag=None)

\* ------------------------------------------------------------ dtype tables
np_to_vtk_type(d) ==
    CASE d = "int8" -> "Int8"     [] d = "uint8" -> "UInt8"
      [] d = "int16" -> "Int16"   [] d = "uint16" -> "UInt16"
      [] d = "int32" -> "Int32"   [] d = "uint32" -> "UInt32"
      [] d = "int64" -> "Int64"   [] d = "uint64" -> "UInt64"
      [] d = "float32" -> "Float32" [] d = "float64" -> "Float64"
      [] OTHER -> "KeyError"

np_to_struct(d) ==
    CASE d = "int8" -> "b"   [] d = "uint8" -> "B"
      [] d = "int16" -> "h"  [] d = "uint16" -> "H"
      [] d = "int32" -> "i"  [] d = "uint32" -> "I"
      [] d = "int64" -> "q"  [] d = "uint64" -> "Q"
      [] d = "float32" -> "f" [] d = "float64" -> "d"
      [] OTHER -> "KeyError"

\* numpy dtype.itemsize
itemsize(d) ==
    CASE d \in {"int8", "uint8", "bool"} -> 1
      [] d \in {"int16", "uint16"} -> 2
      [] d \in {"int32", "uint32", "float32"} -> 4
      [] OTHER -> 8

\* struct.calcsize of one item in standard ('<' or '>') mode
struct_size(c) ==
    CASE c \in {"b", "B"} -> 1
      [] c \in {"h", "H"} -> 2
      [] c \in {"i", "I", "f"} -> 4
      [] OTHER -> 8

\* ------------------------------------------------------------------ arrays
\* An ndarray is [dtype, shape, data]: data holds the elements in C order.
\* (data \o <<>> is data, held as a list of its elements)
nd(dtype, shape, data) == [dtype |-> dtype, shape |-> shape, data |-> data \o <<>>]

\* array[lay].flatten(), lay counted from 1
Slice0(array, lay) ==
    LET c == Len(array.data) \div array.shape[1]
    IN  SubSeq(array.data, (lay - 1) * c + 1, lay * c)

\* x[m != 0] for two flat sequences of equal length
RECURSIVE MaskSeq(_, _)
MaskSeq(x, m) ==
    IF x = <<>> THEN <<>>
    ELSE (IF Head(m) # 0 THEN <<Head(x)>> ELSE <<>>) \o MaskSeq(Tail(x), Tail(m))

\* ------------------------------------------------------------------ tokens
\* What reaches the file, one record per write_string / f.write call.
Tok(k, s, v, n, d) == [k |-> k, s |-> s, v |-> v, n |-> n, d |-> d]
TokDecl == Tok("decl", "<?xml version=\"1.0\"?>", "", 0, <<>>)
TokGt == Tok("gt", ">", "", 0, <<>>)
TokSelfClose == Tok("selfclose", "/>", "", 0, <<>>)
TokNl == Tok("nl", "\n", "", 0, <<>>)
TokOpen(tag, indent) == Tok("open", tag, "", indent, <<>>)
TokClose(tag, indent) == Tok("close", tag, "", indent, <<>>)
TokIndent(indent) == Tok("indent", "", "", indent, <<>>)
TokText(text) == Tok("text", text.s, "", 0, text.d)
TokAttr(kv) == Tok("attr", kv.key, kv.sval, kv.nval, kv.d)
TokSize(n) == Tok("size", "Q", "", n, <<>>)          \* 8 bytes holding n
TokBytes(n, d) == Tok("bytes", "", "", n, d)         \* n bytes of payload

\* keyword arguments: a sequence of [key, sval, nval]
KwS(key, sval) == [key |-> key, sval |-> sval, nval |-> 0, d |-> <<>>]
KwN(key, nval) == [key |-> key, sval |-> "", nval |-> nval, d |-> <<>>]
\* a string made of numbers separated by spaces
KwD(key, d) == [key |-> key, sval |-> "", nval |-> 0, d |-> d]
\* a line of text: a literal and / or a list of formatted numbers
Line(s, d) == [s |-> s, d |-> d]

\* ----------------------------------------------------- XmlWriterInterface
\* A writer is a record; a method is an operator from the writer before the
\* call to the writer after it.  An exception is kept in the field err, and
\* a writer that holds one is left as it is by every later statement.
Raise(w, e) == IF w.err = "ok" THEN [w EXCEPT !.err = e] ELSE w
Upd(w, w2) == IF w.err = "ok" THEN w2 ELSE w

\* a write that does not fail on a closed file
write_string_closed(w, tok) ==
    IF w.err # "ok" THEN w ELSE [w EXCEPT !.out = Append(@, tok)]

write_string(w, tok) ==
    IF w.err # "ok" THEN w
    ELSE IF w.f # "open" THEN Raise(w, "ValueError")
    ELSE [w EXCEPT !.out = Append(@, tok)]

\* self.open_tag = b
set_open_tag(w, b) == Upd(w, [w EXCEPT !.open_tag = b])
\* self.indent_level += d
add_indent(w, d) == Upd(w, [w EXCEPT !.indent_level = @ + d])
\* self.current.append(tag)
push_current(w, tag) == Upd(w, [w EXCEPT !.current = Append(@, tag)])

\* if self.open_tag: self.write_string(">") [; self.open_tag = False]
end_start_tag(w, reset) ==
    IF w.err = "ok" /\ w.open_tag
    THEN IF reset THEN set_open_tag(write_string(w, TokGt), FALSE)
         ELSE write_string(w, TokGt)
    ELSE w

\* the start tag, indented by the level before self.indent_level += 1
write_open(w, tag) == write_string(w, TokOpen(tag, w.indent_level - 1))

open_element(w, tag) ==
    push_current(
        set_open_tag(write_open(add_indent(end_start_tag(w, FALSE), 1), tag),
                     TRUE),
        tag)

\* self.current.pop()
pop_current(w) ==
    IF w.err # "ok" THEN w
    ELSE IF w.current = <<>> THEN Raise(w, "IndexError")
    ELSE [w EXCEPT !.current = SubSeq(@, 1, Len(@) - 1)]

\* assert (self.current.pop() == tag): the element is popped, then compared
pop_assert(w, tag) ==
    IF w.err = "ok" /\ w.current # <<>> /\ w.current[Len(w.current)] # tag
    THEN Raise(pop_current(w), "AssertionError")
    ELSE pop_current(w)

\* the end tag, indented by the level after self.indent_level -= 1
write_close(w, tag) == write_string(w, TokClose(tag, w.indent_level))

\* close_element without self.indent_level -= 1
close_element_same_indent(w, tag) ==
    IF tag # NoTag
    THEN write_close(end_start_tag(pop_assert(w, tag), TRUE), tag)
    ELSE pop_current(set_open_tag(write_string(w, TokSelfClose), FALSE))

close_element(w, tag) ==
    IF tag # NoTag
    THEN write_close(end_start_tag(pop_assert(add_indent(w, -1), tag), TRUE),
                     tag)
    ELSE pop_current(
             set_open_tag(write_string(add_indent(w, -1), TokSelfClose), FALSE))

RECURSIVE write_attrs(_, _)
write_attrs(w, kwargs) ==
    IF kwargs = <<>> \/ w.err # "ok" THEN w
    ELSE write_attrs(write_string(w, TokAttr(Head(kwargs))), Tail(kwargs))

\* add_attributes without its assertion on open_tag
add_attributes_unchecked(w, kwargs) ==
    IF w.err # "ok" THEN w ELSE write_attrs(w, kwargs)

add_attributes(w, kwargs) ==
    IF w.err # "ok" THEN w
    ELSE IF ~w.open_tag THEN Raise(w, "AssertionError")
    ELSE write_attrs(w, kwargs)

\* indent = self.indent_level * self.indent_char; self.write_string(indent)
write_indent(w) == write_string(w, TokIndent(w.indent_level))

write_line(w, text) ==
    write_string(write_indent(write_string(end_start_tag(w, TRUE), TokNl)),
                 TokText(text))

\* assert (not self.open_tag)
assert_not_open(w) ==
    IF w.err = "ok" /\ w.open_tag THEN Raise(w, "AssertionError") ELSE w
\* self.f.close()
close_file(w) == Upd(w, [w EXCEPT !.f = "closed", !.closes = @ + 1])

\* XmlWriterInterface.final
final(w) == close_file(assert_not_open(close_element(w, "VTKFile")))

\* the attributes set first in __init__, and self.f = self._open_file(...)
open_file(binary) ==
    [binary |-> binary, open_tag |-> FALSE, current |-> <<>>,
     indent_level |-> 0, out |-> <<>>, f |-> "open", closes |-> 0,
     offset |-> 0, processed_arrays |-> <<>>, err |-> "ok"]

\* XmlWriterInterface.__init__ (the file is opened, then the prolog written)
XmlWriterInterface(binary) ==
    add_attributes(
        open_element(write_string(open_file(binary), TokDecl), "VTKFile"),
        <<KwS("version", "0.1")>>)

\* vtk_type = np_to_vtk_type[array.dtype.name]; self.add_attributes(type=...)
add_type(w, dtype) ==
    IF np_to_vtk_type(dtype) = "KeyError" THEN Raise(w, "KeyError")
    ELSE add_attributes(w, <<KwS("type", np_to_vtk_type(dtype))>>)

\* --------------------------------------------------------- XmlWriterAscii
NoMask == [none |-> TRUE, a |-> nd("int64", <<0>>, <<>>)]
Mask(a) == [none |-> FALSE, a |-> a]

\* the values written as they are, not-a-number too
nan_kept(x) == x

\* array_lay_flat[np.isnan(array_lay_flat)] = -1.e9
RECURSIVE nan_to_literal(_)
nan_to_literal(x) ==
    IF x = <<>> THEN <<>>
    ELSE <<IF Head(x) = NaN THEN ASCII_NAN ELSE Head(x)>> \o nan_to_literal(Tail(x))

\* the loop of XmlWriterAscii.write_array ending one layer early
RECURSIVE ascii_layers_skip_last(_, _, _, _)
ascii_layers_skip_last(w, array, actwcells, lay) ==
    IF lay >= array.shape[1] \/ w.err # "ok" THEN w
    ELSE ascii_layers_skip_last(
             write_line(w, Line("", nan_to_literal(
                 IF ~actwcells.none
                 THEN MaskSeq(Slice0(array, lay), Slice0(actwcells.a, lay))
                 ELSE Slice0(array, lay)))),
             array, actwcells, lay + 1)

\* the loop "for lay in range(nlay)" of XmlWriterAscii.write_array, from lay
RECURSIVE ascii_layers(_, _, _, _)
ascii_layers(w, array, actwcells, lay) ==
    IF lay > array.shape[1] \/ w.err # "ok" THEN w
    ELSE LET array_lay_flat ==
                 IF ~actwcells.none
                 THEN MaskSeq(Slice0(array, lay), Slice0(actwcells.a, lay))
                 ELSE Slice0(array, lay)
             s == Line("", nan_to_literal(array_lay_flat))
         IN  ascii_layers(write_line(w, s), array, actwcells, lay + 1)

XmlWriterAscii_write_array(w, array, actwcells, kwargs) ==
    close_element(
        ascii_layers(
            add_attributes(
                add_attributes(
                    add_type(open_element(w, "DataArray"), array.dtype),
                    kwargs),
                <<KwS("format", "ascii")>>),
            array, actwcells, 1),
        "DataArray")

\* -------------------------------------------------------- XmlWriterBinary
\* self.offset = 0; self.processed_arrays = []
init_offset(w) == Upd(w, [w EXCEPT !.offset = 0, !.processed_arrays = <<>>])

XmlWriterBinary(dummy) ==
    init_offset(
        add_attributes(
            add_attributes(XmlWriterInterface(TRUE),
                           <<KwS("byte_order", "LittleEndian")>>),
            <<KwS("header_type", "UInt64")>>))

\* the array is stored for final() with the offset advanced by the payload only
store_array_no_prefix(w, array, actwcells) ==
    LET a == IF ~actwcells.none
             THEN MaskSeq(array.data, actwcells.a.data)
             ELSE array.data
        empty0 == IF ~actwcells.none THEN a = <<>> ELSE array.shape[1] = 0
        array_size == Len(a) * itemsize(array.dtype)
    IN  IF w.err # "ok" THEN w
        ELSE IF empty0 THEN Raise(w, "IndexError")
        ELSE [w EXCEPT
                 !.processed_arrays =
                     Append(@, [a |-> [dtype |-> array.dtype, data |-> a],
                                array_size |-> array_size]),
                 !.offset = @ + array_size]

\* XmlWriterBinary.write_array, lines 279-287: the array is stored for
\* final() and the offset of the next array computed
store_array(w, array, actwcells) ==
    LET \* array = array[actwcells != 0]; a = np.ascontiguousarray(array.ravel())
        a == IF ~actwcells.none
             THEN MaskSeq(array.data, actwcells.a.data)
             ELSE array.data
        \* array[0] raises IndexError on an array without a first element
        empty0 == IF ~actwcells.none THEN a = <<>> ELSE array.shape[1] = 0
        array_size == Len(a) * itemsize(array.dtype)
    IN  IF w.err # "ok" THEN w
        ELSE IF empty0 THEN Raise(w, "IndexError")
        ELSE [w EXCEPT
                 !.processed_arrays =
                     Append(@, [a |-> [dtype |-> array.dtype, data |-> a],
                                array_size |-> array_size]),
                 !.offset = @ + array_size + byte_count_size]

XmlWriterBinary_write_array(w, array, actwcells, kwargs) ==
    close_element(
        store_array(
            add_attributes(
                add_attributes(
                    add_type(open_element(w, "DataArray"), array.dtype),
                    kwargs),
                <<KwS("format", "appended"), KwN("offset", w.offset)>>),
            array, actwcells),
        "DataArray")

\* self.f.write(struct.pack(byte_order + 'Q', block_size))
XmlWriterBinary_write_size(w, block_size) == write_string(w, TokSize(block_size))

\* self.f.write(struct.pack(byte_order + str(data.size) + code, *data))
XmlWriterBinary_append_array_binary(w, data) ==
    IF np_to_struct(data.dtype) = "KeyError" THEN Raise(w, "KeyError")
    ELSE write_string(w, TokBytes(Len(data.data)
                                      * struct_size(np_to_struct(data.dtype)),
                                  data.data))

\* the loop of final writing the payloads without their size prefix
RECURSIVE append_all_no_size(_, _)
append_all_no_size(w, i) ==
    IF i > Len(w.processed_arrays) \/ w.err # "ok" THEN w
    ELSE append_all_no_size(
             XmlWriterBinary_append_array_binary(w, w.processed_arrays[i].a),
             i + 1)

\* the loop "for a, block_size in self.processed_arrays" of final, from i
RECURSIVE append_all(_, _)
append_all(w, i) ==
    IF i > Len(w.processed_arrays) \/ w.err # "ok" THEN w
    ELSE append_all(
             XmlWriterBinary_append_array_binary(
                 XmlWriterBinary_write_size(w, w.processed_arrays[i].array_size),
                 w.processed_arrays[i].a),
             i + 1)

XmlWriterBinary_final(w) ==
    final(
        close_element(
            append_all(
                write_line(
                    add_attributes(open_element(w, "AppendedData"),
                                   <<KwS("encoding", "raw")>>),
                    Line("_", <<>>)),
                1),
            "AppendedData"))

\* dispatch on the class of the writer
NewWriter(binary) == IF binary THEN XmlWriterBinary(TRUE) ELSE XmlWriterInterface(FALSE)
write_array(w, array, actwcells, kwargs) ==
    IF w.binary THEN XmlWriterBinary_write_array(w, array, actwcells, kwargs)
    ELSE XmlWriterAscii_write_array(w, array, actwcells, kwargs)
xml_final(w) == IF w.binary THEN XmlWriterBinary_final(w) ELSE final(w)

\* ============================================================== modelgrid
\* The StructuredGrid the exporter reads: NLAY x NROW x NCOL cells of size
\* 12 x 12 x 12, layer k (from 0) between elevations 12*(NLAY-k) and
\* 12*(NLAY-k-1).  Lengths are multiples of 12 so that a mean of up to four
\* of them is a whole number.
NCELLS == NLAY * NROW * NCOL
GridShape == <<NLAY, NROW, NCOL>>
Cells == 1..NCELLS

\* the constant array np.full(shape, value)
np_full(shape, value) ==
    LET n == IF Len(shape) = 3 THEN shape[1] * shape[2] * shape[3]
             ELSE IF Len(shape) = 2 THEN shape[1] * shape[2] ELSE shape[1]
    IN  nd("float64", shape, [i \in 1..n |-> value])

\* a grid of nlay x nrow x ncol such cells; a grid that is not regular has
\* rows 24 wide, one that is not rectilinear has its first cell's top 12
\* higher than the rest of the layer
Grid(nlay, nrow, ncol, idomain, regular, rectilinear) ==
    [nlay |-> nlay, nrow |-> nrow, ncol |-> ncol,
     grid_type |-> "structured",
     idomain |-> idomain,
     is_regular |-> regular, is_rectilinear |-> rectilinear,
     delr |-> [j \in 1..ncol |-> 12],
     delc |-> [i \in 1..nrow |-> IF regular THEN 12 ELSE 24],
     top_botm |-> nd("float64", <<nlay + 1, nrow, ncol>>,
                     [n \in 1..((nlay + 1) * nrow * ncol) |->
                         12 * (nlay - ((n - 1) \div (nrow * ncol)))
                         + (IF n = 1 /\ ~rectilinear THEN 12 ELSE 0)])]

StructuredGrid(idomain, regular, rectilinear) ==
    Grid(NLAY, NROW, NCOL, idomain, regular, rectilinear)

NoIdomain == [none |-> TRUE, a |-> nd("int32", <<0>>, <<>>)]
Idomain(a) == [none |-> FALSE, a |-> a]

\* ==================================================================== Vtk
\* the characters of the strings that are compared by "in"
Chars(s) ==
    CASE s = "" -> <<>>
      [] s = "auto" -> <<"a", "u", "t", "o">>
      [] s = "Grid" -> <<"G", "r", "i", "d">>
      [] s = "PolyData" -> <<"P", "o", "l", "y", "D", "a", "t", "a">>
      [] s = "ImageData" -> <<"I", "m", "a", "g", "e", "D", "a", "t", "a">>
      [] s = "RectilinearGrid" ->
             <<"R", "e", "c", "t", "i", "l", "i", "n", "e", "a", "r",
               "G", "r", "i", "d">>
      [] s = "UnstructuredGrid" ->
             <<"U", "n", "s", "t", "r", "u", "c", "t", "u", "r", "e", "d",
               "G", "r", "i", "d">>

\* x in s, for two strings: x occurs in s
str_in(x, s) ==
    \E i \in 1..(Len(Chars(s)) + 1) :
        /\ i + Len(Chars(x)) - 1 <= Len(Chars(s))
        /\ SubSeq(Chars(s), i, i + Len(Chars(x)) - 1) = Chars(x)

allowable_types == <<"ImageData", "RectilinearGrid", "UnstructuredGrid">>

\* every representation given the extension .vtu
file_extension_vtu(vtk_grid_type) == ".vtu"

\* Vtk._vtk_grid_type, "determine the file extension"
file_extension_of(vtk_grid_type) ==
    IF vtk_grid_type = "ImageData" THEN ".vti"
    ELSE IF vtk_grid_type = "RectilinearGrid" THEN ".vtr"
    ELSE ".vtu"

\* Vtk._vtk_grid_type: [err, vtk_grid_type, file_extension]
vtk_grid_type_of(modelgrid, requested) ==
    LET t == IF requested = "auto"
             THEN IF modelgrid.grid_type = "structured"
                  THEN IF modelgrid.is_regular THEN "ImageData"
                       ELSE IF modelgrid.is_rectilinear THEN "RectilinearGrid"
                       ELSE "UnstructuredGrid"
                  ELSE "UnstructuredGrid"
             ELSE requested
        e == IF requested = "auto" THEN "ok"
             \* not any(vtk_grid_type in s for s in allowable_types)
             ELSE IF ~\E n \in 1..Len(allowable_types) :
                          str_in(requested, allowable_types[n])
                  THEN "ValueError"
             ELSE IF requested \in {"ImageData", "RectilinearGrid"}
                     /\ modelgrid.grid_type # "structured"
                  THEN "NotImplementedError"
             ELSE IF requested = "ImageData" /\ ~modelgrid.is_regular
                  THEN "ValueError"
             ELSE IF requested = "RectilinearGrid" /\ ~modelgrid.is_rectilinear
                  THEN "ValueError"
             ELSE "ok"
    IN  [err |-> e, vtk_grid_type |-> t, file_extension |-> file_extension_of(t)]

\* Vtk.__init__ (a model without confining beds: laycbd is all zero)
Vtk(modelgrid, smooth, point_scalars, requested, binary) ==
    LET g == vtk_grid_type_of(modelgrid, requested)
    IN  [made |-> TRUE,
         modelgrid |-> modelgrid,
         nlay |-> modelgrid.nlay, nrow |-> modelgrid.nrow,
         ncol |-> modelgrid.ncol,
         shape |-> <<modelgrid.nlay, modelgrid.nrow, modelgrid.ncol>>,
         shape2d |-> <<modelgrid.nrow, modelgrid.ncol>>,
         nanval |-> NANVAL,
         arrays |-> <<>>,
         smooth |-> (IF point_scalars THEN TRUE ELSE smooth),
         point_scalars |-> point_scalars,
         ibound |-> IF modelgrid.idomain.none
                    THEN np_full(<<modelgrid.nlay, modelgrid.nrow,
                                   modelgrid.ncol>>, 1)
                    ELSE modelgrid.idomain.a,
         vtk_grid_type |-> g.vtk_grid_type,
         file_extension |-> g.file_extension,
         binary |-> binary,
         \* assert (isinstance(self.modelgrid, StructuredGrid))
         err |-> IF modelgrid.grid_type # "structured" THEN "AssertionError"
                 ELSE g.err]

\* self.arrays is a dict: a sequence of [name, a, obj] in insertion order;
\* obj tells whether a is a new object or the caller's own array object.
Names(arrays) == {arrays[i].name : i \in 1..Len(arrays)}
Get(arrays, name) ==
    arrays[CHOOSE i \in 1..Len(arrays) : arrays[i].name = name]
\* self.arrays[name] = a
SetItem(arrays, name, a, obj) ==
    IF name \in Names(arrays)
    THEN [i \in 1..Len(arrays) |->
             IF arrays[i].name = name
             THEN [name |-> name, a |-> a, obj |-> obj] ELSE arrays[i]]
    ELSE Append(arrays, [name |-> name, a |-> a, obj |-> obj])

\* Vtk.add_array storing the caller's own array when nothing is to be masked
add_array_no_copy(v, name, a, array2d) ==
    IF v.err # "ok" THEN v
    ELSE IF array2d /\ a.shape # v.shape2d THEN Raise(v, "AssertionError")
    ELSE LET a3 == IF array2d
                   THEN nd("float64", v.shape,
                           [i \in 1..(v.nlay * v.nrow * v.ncol) |->
                               IF i <= Len(a.data) THEN a.data[i] ELSE v.nanval])
                   ELSE a
         IN  IF a3.shape # v.shape THEN v
             ELSE LET where_to_nan ==
                          [i \in 1..Len(a3.data) |->
                              a3.data[i] = v.nanval \/ v.ibound.data[i] = 0]
                      a4 == nd("float64", a3.shape,
                               [i \in 1..Len(a3.data) |->
                                   IF where_to_nan[i] THEN NaN ELSE a3.data[i]])
                      keep == ~array2d /\ a4.data = a.data
                  IN  [v EXCEPT !.arrays =
                          SetItem(@, name, a4, IF keep THEN "arg" ELSE "new")]

\* Vtk.add_array
add_array(v, name, a, array2d) ==
    IF v.err # "ok" THEN v
    ELSE IF array2d /\ a.shape # v.shape2d THEN Raise(v, "AssertionError")
    ELSE LET \* array = np.full(self.shape, self.nanval); array[0, :, :] = a
             a3 == IF array2d
                   THEN nd("float64", v.shape,
                           [i \in 1..(v.nlay * v.nrow * v.ncol) |->
                               IF i <= Len(a.data) THEN a.data[i] ELSE v.nanval])
                   ELSE a
         IN  IF a3.shape # v.shape THEN v        \* except AssertionError: return
             ELSE LET where_to_nan ==
                          [i \in 1..Len(a3.data) |->
                              a3.data[i] = v.nanval \/ v.ibound.data[i] = 0]
                      \* np.where(where_to_nan, np.nan, a).astype(float)
                      a4 == nd("float64", a3.shape,
                               [i \in 1..Len(a3.data) |->
                                   IF where_to_nan[i] THEN NaN ELSE a3.data[i]])
                  IN  [v EXCEPT !.arrays = SetItem(@, name, a4, "new")]

\* Vtk._configure_data_arrays testing a != self.nanval before the
\* not-a-number cells are set to self.nanval
configure_data_arrays_keep_nan(v) ==
    LET arrays2 ==
            [n \in 1..Len(v.arrays) |->
                [v.arrays[n] EXCEPT !.a.data =
                    [i \in 1..Len(@) |-> IF @[i] = NaN THEN v.nanval ELSE @[i]]]]
        ot_idx_array ==
            nd("int64", v.shape,
               [i \in 1..(v.shape[1] * v.shape[2] * v.shape[3]) |->
                   IF \E n \in 1..Len(v.arrays) : v.arrays[n].a.data[i] # v.nanval
                   THEN 1 ELSE 0])
    IN  [arrays |-> arrays2, ot_idx_array |-> ot_idx_array]

\* Vtk._configure_data_arrays: [arrays, ot_idx_array].  a = array.ravel() is
\* a view, so a[where_nan] = self.nanval changes the stored array itself.
configure_data_arrays(v) ==
    LET arrays2 ==
            [n \in 1..Len(v.arrays) |->
                [v.arrays[n] EXCEPT !.a.data =
                    [i \in 1..Len(@) |-> IF @[i] = NaN THEN v.nanval ELSE @[i]]]]
        ot_idx_array ==
            nd("int64", v.shape,
               [i \in 1..(v.shape[1] * v.shape[2] * v.shape[3]) |->
                   IF \E n \in 1..Len(arrays2) : arrays2[n].a.data[i] # v.nanval
                   THEN 1 ELSE 0])
    IN  [arrays |-> arrays2, ot_idx_array |-> ot_idx_array]

\* element [lay, row, col] (from 0) of a 3-d array
At3(array, lay, row, col) ==
    array.data[(lay * array.shape[2] + row) * array.shape[3] + col + 1]

\* neighList[neighList != self.nanval].mean(); a nan among the values gives nan
RECURSIVE SeqSum(_)
SeqSum(x) == IF x = <<>> THEN 0 ELSE Head(x) + SeqSum(Tail(x))
\* a mean that divides by the four candidate cells whatever their number
np_mean_by_four(x) ==
    IF \E i \in 1..Len(x) : x[i] = NaN THEN NaN ELSE SeqSum(x) \div 4

np_mean(x) ==
    IF \E i \in 1..Len(x) : x[i] = NaN THEN NaN ELSE SeqSum(x) \div Len(x)

\* Vtk.extendedDataArray
extendedDataArray(v, dataArray) ==
    LET nl == dataArray.shape[1]
        rc == dataArray.shape[2] * dataArray.shape[3]
        \* np.stack([dataArray[0]] + [dataArray[lay] for lay in range(nl)])
        ext == IF nl = v.nlay + 1 THEN dataArray
               ELSE nd(dataArray.dtype,
                       <<nl + 1, dataArray.shape[2], dataArray.shape[3]>>,
                       SubSeq(dataArray.data, 1, rc) \o dataArray.data)
        valMean(lay, row, col) ==
            LET indexList == << <<row - 1, col - 1>>, <<row - 1, col>>,
                                <<row, col - 1>>, <<row, col>> >>
                inb(index) == /\ index[1] \in 0..(v.nrow - 1)
                              /\ index[2] \in 0..(v.ncol - 1)
                neighList ==
                    [n \in 1..4 |->
                        IF inb(indexList[n])
                        THEN At3(ext, lay, indexList[n][1], indexList[n][2])
                        ELSE v.nanval]
                sel == SelectSeq(
                           [n \in 1..4 |-> [ok |-> inb(indexList[n]),
                                            x |-> neighList[n]]],
                           LAMBDA e : e.ok /\ e.x # v.nanval)
                vals == [n \in 1..Len(sel) |-> sel[n].x]
            IN  IF Len(vals) > 0 THEN np_mean(vals) ELSE v.nanval
        w == v.ncol + 1
        h == v.nrow + 1
    IN  nd("float64", <<v.nlay + 1, h, w>>,
           [n \in 1..((v.nlay + 1) * h * w) |->
               valMean((n - 1) \div (h * w),
                       ((n - 1) % (h * w)) \div w,
                       (n - 1) % w)])

\* StructuredGrid._cell_vert_list(i, j): pt0..pt3 of the cell footprint
\* (xvertices[i, j] = xedges[j], yvertices[i, j] = yedges[i], rows from the top)
xedges(g) == [j \in 1..(g.ncol + 1) |-> 12 * (j - 1)]
yedges(g) == [i \in 1..(g.nrow + 1) |-> g.delc[1] * (g.nrow - (i - 1))]
zedges(g) == [k \in 1..(g.nlay + 1) |-> At3(g.top_botm, k - 1, 0, 0)]
cell_vert_list(g, i, j) ==
    << <<xedges(g)[j + 1], yedges(g)[i + 1]>>,
       <<xedges(g)[j + 1], yedges(g)[i + 2]>>,
       <<xedges(g)[j + 2], yedges(g)[i + 2]>>,
       <<xedges(g)[j + 2], yedges(g)[i + 1]>> >>

\* the loop body with the top face put before the bottom face
cell_entry_top_first(v, zVertices, cellid, k, i, j, ipoint) ==
    LET pts == cell_vert_list(v.modelgrid, i, j)
        face(z1, z2, z0, z3) ==
            << <<pts[2][1], pts[2][2], z1>>, <<pts[3][1], pts[3][2], z2>>,
               <<pts[1][1], pts[1][2], z0>>, <<pts[4][1], pts[4][2], z3>> >>
        level(lay) ==
            IF ~v.smooth
            THEN face(At3(zVertices, lay, i, j), At3(zVertices, lay, i, j),
                      At3(zVertices, lay, i, j), At3(zVertices, lay, i, j))
            ELSE face(At3(zVertices, lay, i + 1, j),
                      At3(zVertices, lay, i + 1, j + 1),
                      At3(zVertices, lay, i, j),
                      At3(zVertices, lay, i, j + 1))
    IN  [cellid |-> cellid,
         verts |-> level(k) \o level(k + 1),
         ivert |-> [n \in 1..8 |-> ipoint + n - 1],
         zverts |-> [n \in 1..8 |-> (level(k) \o level(k + 1))[n][3]]]

\* the body of the loops of get_3d_vertex_connectivity for one emitted cell
cell_entry(v, zVertices, cellid, k, i, j, ipoint) ==
    LET pts == cell_vert_list(v.modelgrid, i, j)
        pt0 == pts[1]
        pt1 == pts[2]
        pt2 == pts[3]
        pt3 == pts[4]
        face(z1, z2, z0, z3) ==
            << <<pt1[1], pt1[2], z1>>, <<pt2[1], pt2[2], z2>>,
               <<pt0[1], pt0[2], z0>>, <<pt3[1], pt3[2], z3>> >>
        flat(elev) == face(elev, elev, elev, elev)
        smoothed(lay) == face(At3(zVertices, lay, i + 1, j),
                              At3(zVertices, lay, i + 1, j + 1),
                              At3(zVertices, lay, i, j),
                              At3(zVertices, lay, i, j + 1))
        verts == IF ~v.smooth
                 THEN flat(At3(v.modelgrid.top_botm, k + 1, i, j))
                      \o flat(At3(v.modelgrid.top_botm, k, i, j))
                 ELSE smoothed(k + 1) \o smoothed(k)
    IN  [cellid |-> cellid,
         verts |-> verts,
         ivert |-> [n \in 1..8 |-> ipoint + n - 1],
         zverts |-> [n \in 1..8 |-> verts[n][3]]]

\* the loops of get_3d_vertex_connectivity advancing the point counter for
\* the skipped cells too
RECURSIVE connectivity_from_gaps(_, _, _, _, _)
connectivity_from_gaps(v, actwcells, zVertices, cellid, ipoint) ==
    IF cellid >= v.nlay * v.nrow * v.ncol THEN <<>>
    ELSE IF actwcells.data[cellid + 1] = 0
         THEN connectivity_from_gaps(v, actwcells, zVertices, cellid + 1,
                                     ipoint + 8)
         ELSE LET k == cellid \div (v.nrow * v.ncol)
                  i == (cellid % (v.nrow * v.ncol)) \div v.ncol
                  j == cellid % v.ncol
              IN  <<cell_entry(v, zVertices, cellid, k, i, j, ipoint)>>
                  \o connectivity_from_gaps(v, actwcells, zVertices,
                                            cellid + 1, ipoint + 8)

\* the loops over k, i, j of get_3d_vertex_connectivity, from cell cellid
RECURSIVE connectivity_from(_, _, _, _, _)
connectivity_from(v, actwcells, zVertices, cellid, ipoint) ==
    IF cellid >= v.nlay * v.nrow * v.ncol THEN <<>>
    ELSE IF actwcells.data[cellid + 1] = 0
         THEN connectivity_from(v, actwcells, zVertices, cellid + 1, ipoint)
         ELSE LET k == cellid \div (v.nrow * v.ncol)
                  i == (cellid % (v.nrow * v.ncol)) \div v.ncol
                  j == cellid % v.ncol
              IN  <<cell_entry(v, zVertices, cellid, k, i, j, ipoint)>>
                  \o connectivity_from(v, actwcells, zVertices, cellid + 1,
                                       ipoint + 8)

\* Vtk.get_3d_vertex_connectivity: the entries of vertsdict, ivertsdict and
\* zvertsdict, one record per key, in insertion order
NoArray == [none |-> TRUE, a |-> nd("float64", <<0>>, <<>>)]
Given(a) == [none |-> FALSE, a |-> a]
get_3d_vertex_connectivity(v, actwcells, zvalues) ==
    LET act == IF actwcells.none THEN v.ibound ELSE actwcells.a
        zVertices == IF v.smooth
                     THEN IF ~zvalues.none
                          THEN extendedDataArray(v, zvalues.a)
                          ELSE extendedDataArray(v, v.modelgrid.top_botm)
                     ELSE v.modelgrid.top_botm
    IN  connectivity_from(v, act, zVertices, 0, 0)

\* np.flip(np.flip(a, axis=0), axis=1) of a 3-d array
flip01(a) ==
    LET d0 == a.shape[1]
        d1 == a.shape[2]
        d2 == a.shape[3]
    IN  nd(a.dtype, a.shape,
           [n \in 1..(d0 * d1 * d2) |->
               At3(a, d0 - 1 - ((n - 1) \div (d1 * d2)),
                      d1 - 1 - (((n - 1) % (d1 * d2)) \div d2),
                      (n - 1) % d2)])

\* np.flip of a 1-d array
flip1(x) == [n \in 1..Len(x) |-> x[Len(x) + 1 - n]]

RECURSIVE FlattenSeq(_)
FlattenSeq(x) == IF x = <<>> THEN <<>> ELSE Head(x) \o FlattenSeq(Tail(x))

\* timeval argument of write: None, or a scalar of some type
NoTime == [given |-> FALSE, dtype |-> "none", val |-> 0]
Time(dtype, val) == [given |-> TRUE, dtype |-> dtype, val |-> val]
Truthy(timeval) == timeval.given /\ timeval.val # 0

\* ---- the calls Vtk.write makes on its writer, as a list of commands
Cmd(op, tag, kwargs, array, actwcells) ==
    [op |-> op, tag |-> tag, kwargs |-> kwargs, array |-> array,
     actwcells |-> actwcells]
NoNd == nd("float64", <<0>>, <<>>)
CmdOpen(tag) == Cmd("open_element", tag, <<>>, NoNd, NoMask)
CmdClose(tag) == Cmd("close_element", tag, <<>>, NoNd, NoMask)
CmdAttrs(kwargs) == Cmd("add_attributes", "", kwargs, NoNd, NoMask)
CmdArray(array, actwcells, kwargs) ==
    Cmd("write_array", "", kwargs, array, actwcells)
CmdFinal == Cmd("final", "", <<>>, NoNd, NoMask)

exec(x, c) ==
    CASE c.op = "open_element" -> open_element(x, c.tag)
      [] c.op = "close_element" -> close_element(x, c.tag)
      [] c.op = "add_attributes" -> add_attributes(x, c.kwargs)
      [] c.op = "write_array" -> write_array(x, c.array, c.actwcells, c.kwargs)
      [] c.op = "final" -> xml_final(x)

\* the calls in order; an exception ends the method
RECURSIVE run(_, _)
run(x, cmds) ==
    IF cmds = <<>> \/ x.err # "ok" THEN x
    ELSE run(exec(x, Head(cmds)), Tail(cmds))

\* Vtk.write, lines 565-575: type attribute, grid element, time section
cmds_head(v, timeval) ==
    <<CmdAttrs(<<KwS("type", v.vtk_grid_type)>>), CmdOpen(v.vtk_grid_type)>>
    \o (IF Truthy(timeval)
        THEN <<CmdOpen("FieldData"),
               CmdArray(nd(timeval.dtype, <<1>>, <<timeval.val>>), NoMask,
                        <<KwS("Name", "TimeValue"),
                          KwS("NumberOfTuples", "1"),
                          KwS("RangeMin", "{0}"),
                          KwS("RangeMax", "{0}")>>),
               CmdClose("FieldData")>>
        ELSE <<>>)

\* Vtk.write, lines 590-629: piece, points and cells of an UnstructuredGrid
cmds_unstructured(v, conn) ==
    LET ncells == Len(conn)
        npoints == ncells * 8
        verts == nd("float64", <<ncells, 8, 3>>,
                    FlattenSeq([c \in 1..ncells |-> FlattenSeq(conn[c].verts)]))
        iverts == nd("int64", <<ncells, 8>>,
                     FlattenSeq([c \in 1..ncells |-> conn[c].ivert]))
        offsets == nd("int32", <<ncells>>, [c \in 1..ncells |-> 8 * c])
        types == nd("uint8", <<ncells>>, [c \in 1..ncells |-> cell_type])
    IN  <<CmdOpen("Piece"),
          CmdAttrs(<<KwN("NumberOfPoints", npoints),
                     KwN("NumberOfCells", ncells)>>),
          CmdOpen("Points"),
          CmdArray(verts, NoMask, <<KwS("Name", "points"),
                                    KwS("NumberOfComponents", "3")>>),
          CmdClose("Points"),
          CmdOpen("Cells"),
          CmdArray(iverts, NoMask, <<KwS("Name", "connectivity"),
                                     KwS("NumberOfComponents", "1")>>),
          CmdArray(offsets, NoMask, <<KwS("Name", "offsets"),
                                      KwS("NumberOfComponents", "1")>>),
          CmdArray(types, NoMask, <<KwS("Name", "types"),
                                    KwS("NumberOfComponents", "1")>>),
          CmdClose("Cells")>>

vtk_extent(g) == <<0, g.ncol, 0, g.nrow, 0, g.nlay>>

\* Vtk.write, lines 631-649: attributes and piece of an ImageData
cmds_image_data(v) ==
    LET g == v.modelgrid
    IN  <<CmdAttrs(<<KwD("WholeExtent", vtk_extent(g))>>),
          \* xyzextent[0], xyzextent[2], xyzextent[4]
          CmdAttrs(<<KwD("Origin", <<xedges(g)[1], yedges(g)[g.nrow + 1],
                                     zedges(g)[g.nlay + 1]>>)>>),
          CmdAttrs(<<KwD("Spacing",
                         <<g.delr[1], g.delc[1],
                           At3(g.top_botm, 0, 0, 0) - At3(g.top_botm, 1, 0, 0)>>)>>),
          CmdOpen("Piece"),
          CmdAttrs(<<KwD("Extent", vtk_extent(g))>>)>>

\* Vtk.write, lines 651-677: piece and coordinates of a RectilinearGrid
cmds_rectilinear(v) ==
    LET g == v.modelgrid
    IN  <<CmdAttrs(<<KwD("WholeExtent", vtk_extent(g))>>),
          CmdOpen("Piece"),
          CmdAttrs(<<KwD("Extent", vtk_extent(g))>>),
          CmdOpen("Coordinates"),
          CmdArray(nd("float64", <<g.ncol + 1>>, xedges(g)), NoMask,
                   <<KwS("Name", "coord_x"), KwS("NumberOfComponents", "1")>>),
          CmdArray(nd("float64", <<g.nrow + 1>>, flip1(yedges(g))), NoMask,
                   <<KwS("Name", "coord_y"), KwS("NumberOfComponents", "1")>>),
          CmdArray(nd("float64", <<g.nlay + 1>>, flip1(zedges(g))), NoMask,
                   <<KwS("Name", "coord_z"), KwS("NumberOfComponents", "1")>>),
          CmdClose("Coordinates")>>

\* Vtk.write, lines 679-694: cell data, one array per entry of self.arrays
cmds_cell_data(v, arrays, actwcells3d) ==
    <<CmdOpen("CellData")>>
    \o [n \in 1..Len(arrays) |->
           IF v.vtk_grid_type = "UnstructuredGrid"
           THEN CmdArray(arrays[n].a, actwcells3d,
                         <<KwS("Name", arrays[n].name),
                           KwS("NumberOfComponents", "1")>>)
           ELSE CmdArray(flip01(arrays[n].a), NoMask,
                         <<KwS("Name", arrays[n].name),
                           KwS("NumberOfComponents", "1")>>)]
    \o <<CmdClose("CellData")>>

\* Vtk.write, lines 696-716: point data, if point_scalars
cmds_point_data(v, arrays, actwcells3d) ==
    IF ~v.point_scalars THEN <<>>
    ELSE <<CmdOpen("PointData")>>
         \o [n \in 1..Len(arrays) |->
                LET a == IF v.vtk_grid_type = "UnstructuredGrid"
                         THEN LET zv == get_3d_vertex_connectivity(
                                            v, actwcells3d,
                                            Given(arrays[n].a))
                              IN  nd("float64", <<Len(zv), 8>>,
                                     FlattenSeq([c \in 1..Len(zv) |->
                                                    zv[c].zverts]))
                         ELSE flip01(extendedDataArray(v, arrays[n].a))
                IN  CmdArray(a, NoMask, <<KwS("Name", arrays[n].name),
                                          KwS("NumberOfComponents", "1")>>)]
         \o <<CmdClose("PointData")>>

\* Vtk.write, the results [vtk, xml, loc]: loc keeps the locals of the call,
\* path tells how it ended: "return" (line 588), "end" (line 728) or "raise".
\* Line 728 (self.arrays.clear()) is reached on the path "end" only.
write_result(v, timeval, arrays, actwcells3d, conn, xml_end, path) ==
    [vtk |-> [v EXCEPT !.arrays = IF path = "end" THEN <<>> ELSE arrays,
                       !.err = xml_end.err],
     xml |-> xml_end,
     loc |-> [made |-> TRUE,
              arrays |-> v.arrays,
              timeval |-> timeval,
              actwcells3d |-> actwcells3d,
              cellids |-> [c \in 1..Len(conn) |-> conn[c].cellid],
              path |-> path]]

\* Vtk.write, lines 679-728, xml_end being the writer at the end
write_end(v, timeval, arrays, actwcells3d, conn, xml_end) ==
    write_result(v, timeval, arrays, actwcells3d, conn, xml_end,
                 IF xml_end.err = "ok" THEN "end" ELSE "raise")

\* Vtk.write, lines 679-728, after the calls in grid that describe the grid;
\* arrays are the stored arrays as the method finds them at line 683
write_data(v, timeval, x3, arrays, actwcells3d, conn, grid) ==
    write_end(v, timeval, arrays, actwcells3d, conn,
              run(x3, grid
                      \o cmds_cell_data(v, arrays, actwcells3d)
                      \o cmds_point_data(v, arrays, actwcells3d)
                      \o <<CmdClose("Piece"), CmdClose(v.vtk_grid_type),
                           CmdFinal>>))

\* Vtk.write, lines 585-588: nothing to write is a plain return
write_cells(v, timeval, x3, cfg, conn) ==
    IF Len(conn) = 0
    THEN write_result(v, timeval, cfg.arrays, Given(cfg.ot_idx_array), conn,
                      x3, "return")
    ELSE write_data(v, timeval, x3, cfg.arrays, Given(cfg.ot_idx_array), conn,
                    cmds_unstructured(v, conn))

\* Vtk.write, lines 576-583
write_unstructured(v, timeval, x3, cfg) ==
    write_cells(v, timeval, x3, cfg,
                get_3d_vertex_connectivity(v, Given(cfg.ot_idx_array), NoArray))

\* Vtk.write, from line 576, x3 being the writer after the time section; an
\* exception raised before ends the method here
write_grid(v, timeval, x3) ==
    IF x3.err # "ok"
    THEN write_result(v, timeval, v.arrays, NoArray, <<>>, x3, "raise")
    ELSE IF v.vtk_grid_type = "UnstructuredGrid"
    THEN write_unstructured(v, timeval, x3, configure_data_arrays(v))
    ELSE write_data(v, timeval, x3, v.arrays, NoArray, <<>>,
                    IF v.vtk_grid_type = "ImageData" THEN cmds_image_data(v)
                    ELSE IF v.vtk_grid_type = "RectilinearGrid"
                    THEN cmds_rectilinear(v)
                    ELSE <<>>)

\* Vtk.write
write(v, timeval) ==
    write_grid(v, timeval, run(NewWriter(v.binary), cmds_head(v, timeval)))

\* ================================================================== state
VARIABLES
    xml,      \* the writer: the object under test, or the local xml of write
    vtk,      \* the Vtk object
    lastOp,   \* the last call made: [op, arg]
    result,   \* how it ended: "ok" or the exception raised
    nops,     \* calls made so far
    loc,      \* locals of the last Vtk.write call
    arg       \* the caller's array object passed to the last add_array

vars == <<xml, vtk, lastOp, result, nops, loc, arg>>

NoVtk == [made |-> FALSE]
NoXml == [made |-> FALSE]
NoLoc == [made |-> FALSE]
NoArg == [made |-> FALSE]
Call(op, a) == [op |-> op, arg |-> a]

\* ------------------------------------------------- writer specification
\* One writer of either class, driven by an arbitrary caller.
Tags == {"VTKFile", "Piece"}
TestKwargs == <<KwS("Name", "h"), KwN("NumberOfComponents", 1)>>
TestArrays ==
    { [array |-> nd("float64", <<1, 2>>, <<1, 2>>), actwcells |-> NoMask],
      [array |-> nd("uint8", <<3>>, <<11, 11, 11>>), actwcells |-> NoMask],
      [array |-> nd("float64", <<2, 2>>, <<1, NaN, 2, 3>>),
       actwcells |-> Mask(nd("int64", <<2, 2>>, <<0, 1, 1, 1>>))],
      [array |-> nd("float64", <<0>>, <<>>), actwcells |-> NoMask] }

WInit ==
    /\ \E b \in BOOLEAN : xml = NewWriter(b)
    /\ vtk = NoVtk /\ loc = NoLoc /\ arg = NoArg
    /\ lastOp = Call("__init__", "")
    /\ result = "ok"
    /\ nops = 0

\* the caller makes one more call; an exception of the previous one was caught
WCall(op, a, w2) ==
    /\ nops < MaxOps
    /\ xml' = w2
    /\ lastOp' = Call(op, a)
    /\ result' = w2.err
    /\ nops' = nops + 1
    /\ UNCHANGED <<vtk, loc, arg>>

Caught(w) == [w EXCEPT !.err = "ok"]

WOpenElement ==
    \E tag \in Tags : WCall("open_element", tag, open_element(Caught(xml), tag))
WCloseElement ==
    \E tag \in Tags \cup {NoTag} :
        WCall("close_element", tag, close_element(Caught(xml), tag))
WAddAttributes ==
    WCall("add_attributes", "", add_attributes(Caught(xml), TestKwargs))
WWriteLine ==
    WCall("write_line", "", write_line(Caught(xml), Line("text", <<>>)))
WWriteArray ==
    \E t \in TestArrays :
        WCall("write_array", t.array.dtype,
              write_array(Caught(xml), t.array, t.actwcells, <<KwS("Name", "h")>>))
WFinal == WCall("final", "", xml_final(Caught(xml)))

WNext == \/ WOpenElement \/ WCloseElement \/ WAddAttributes
         \/ WWriteLine \/ WWriteArray \/ WFinal

SpecWriter == WInit /\ [][WNext]_vars

WTypeOK == /\ xml.f \in {"open", "closed"}
           /\ xml.err \in {"ok", "AssertionError", "IndexError", "ValueError", "KeyError"}
           /\ nops \in 0..MaxOps

\* ------------------------------------------------ exporter specification
\* One Vtk object on a regular grid; a caller adds arrays, writes files and
\* may write into the array it passed to add_array.
\* an array holding first, second, rest, ..., rest, last
Pattern(shape, first, second, rest, last) ==
    LET n == IF Len(shape) = 3 THEN shape[1] * shape[2] * shape[3]
             ELSE shape[1] * shape[2]
    IN  [i \in 1..n |-> IF i = 1 THEN first ELSE IF i = 2 THEN second
                        ELSE IF i = n THEN last ELSE rest]

\* the last cell is inactive, the first one active with a negative flag
IdomainChoices ==
    { Idomain(nd("int32", GridShape,
                 [i \in Cells |-> IF i = NCELLS THEN 0
                                  ELSE IF i = 1 THEN -1 ELSE 1])) }

ArrayNames == {"head", "botm"}

\* the arguments (a, array2d) of the add_array calls made
In(a, array2d) == [a |-> a, array2d |-> array2d]
AddArrayCalls ==
    { In(nd("float64", GridShape, Pattern(GridShape, 12, NaN, 24, NaN)), FALSE),
      In(nd("float32", GridShape, Pattern(GridShape, NANVAL, NANVAL, NANVAL, 36)),
         FALSE),
      In(nd("float64", <<NROW, NCOL>>, Pattern(<<NROW, NCOL>>, 60, NANVAL, 72, 72)),
         TRUE),
      \* shapes that do not match
      In(nd("float64", <<NLAY + 1, NROW, NCOL>>,
            Pattern(<<NLAY + 1, NROW, NCOL>>, 12, 12, 12, 12)), FALSE),
      In(nd("float64", <<NROW + 1, NCOL>>,
            Pattern(<<NROW + 1, NCOL>>, 60, 60, 60, 60)), TRUE) }

TimeVals == {NoTime, Time("float64", 60)}

Init ==
    /\ \E idomain \in IdomainChoices, smooth \in BOOLEAN,
          point_scalars \in BOOLEAN, binary \in BOOLEAN,
          requested \in {"auto", "RectilinearGrid", "UnstructuredGrid"} :
           vtk = Vtk(StructuredGrid(idomain, TRUE, TRUE), smooth,
                     point_scalars, requested, binary)
    /\ xml = NoXml /\ loc = NoLoc /\ arg = NoArg
    /\ lastOp = Call("__init__", "")
    /\ result = "ok"
    /\ nops = 0

AddArray ==
    \E name \in ArrayNames, c \in AddArrayCalls :
        /\ vtk' = add_array(Caught(vtk), name, c.a, c.array2d)
        /\ lastOp' = Call("add_array", name)
        /\ result' = vtk'.err
        /\ arg' = [made |-> TRUE, a |-> c.a, array2d |-> c.array2d,
                   written |-> FALSE]
        /\ xml' = NoXml /\ loc' = NoLoc
        /\ UNCHANGED nops

Write ==
    \E timeval \in TimeVals :
        LET r == write(Caught(vtk), timeval)
        IN  /\ vtk' = r.vtk
            /\ xml' = r.xml
            /\ loc' = r.loc
            /\ lastOp' = Call("write", "")
            /\ result' = r.vtk.err
            /\ arg' = NoArg
            /\ UNCHANGED nops

\* the caller assigns to an element of the array object it passed last; a
\* stored array that is this same object changes with it
CallerWrite ==
    /\ arg.made /\ ~arg.written
    /\ lastOp.op = "add_array" /\ result = "ok" /\ arg.a.shape = vtk.shape
    /\ arg' = [arg EXCEPT !.a.data[1] = 84, !.written = TRUE]
    /\ vtk' = [vtk EXCEPT !.arrays =
                  [n \in 1..Len(@) |->
                      IF @[n].obj = "arg"
                      THEN [@[n] EXCEPT !.a.data[1] = 84] ELSE @[n]]]
    /\ lastOp' = Call("caller_write", "")
    /\ result' = "ok"
    /\ UNCHANGED <<xml, loc, nops>>

Next == AddArray \/ Write \/ CallerWrite

Spec == Init /\ [][Next]_vars

TypeOK ==
    /\ vtk.made
    /\ vtk.vtk_grid_type \in {"ImageData", "RectilinearGrid", "UnstructuredGrid"}
    /\ Names(vtk.arrays) \subseteq ArrayNames
    /\ result \in {"ok", "AssertionError", "IndexError", "ValueError", "KeyError"}

\* --------------------------------------------- connectivity specification
\* get_3d_vertex_connectivity applied to a Vtk object and a selection of
\* active cells: the argument actwcells, or None for self.ibound.
\* the selections with at most two cells switched off, or at most two on
AtMostTwo(C) == {{}} \cup {{a, b} : a \in C, b \in C}
Selections ==
    LET few == AtMostTwo(Cells)
    IN  {[i \in Cells |-> IF i \in S THEN 0 ELSE 1] : S \in few}
        \cup {[i \in Cells |-> IF i \in S THEN 1 ELSE 0] : S \in few}

ConnInit ==
    /\ \E idomain \in IdomainChoices \cup {NoIdomain}, smooth \in BOOLEAN,
          rectilinear \in BOOLEAN :
           vtk = Vtk(StructuredGrid(idomain, TRUE, rectilinear), smooth, FALSE,
                     "UnstructuredGrid", FALSE)
    /\ \E sel \in {NoArray} \cup {Given(nd("int64", GridShape, f)) :
                                      f \in Selections} :
           arg = [made |-> TRUE, actwcells |-> sel]
    /\ xml = NoXml /\ loc = NoLoc
    /\ lastOp = Call("__init__", "")
    /\ result = "ok"
    /\ nops = 0

Connectivity ==
    /\ lastOp.op = "__init__"
    /\ loc' = [made |-> TRUE,
               conn |-> get_3d_vertex_connectivity(vtk, arg.actwcells, NoArray)]
    /\ lastOp' = Call("get_3d_vertex_connectivity", "")
    /\ UNCHANGED <<xml, vtk, result, nops, arg>>

SpecConn == ConnInit /\ [][Connectivity]_vars

\* ----------------------------------------- extendedDataArray specification
\* extendedDataArray applied to an array of cell values (nlay layers) or of
\* layer surfaces (nlay + 1 layers) on a grid of EXT_NLAY x EXT_NROW x
\* EXT_NCOL cells.  Cell n holds 12 * n, except for at most two cells, or
\* all but at most two, that hold no data: the sentinel or not-a-number.
ExtArrays ==
    {nd("float64", <<nl, EXT_NROW, EXT_NCOL>>,
        [n \in 1..(nl * EXT_NROW * EXT_NCOL) |->
            IF (n \in S) = off THEN nodata ELSE 12 * n]) :
        nl \in {EXT_NLAY, EXT_NLAY + 1},
        S \in AtMostTwo(1..((EXT_NLAY + 1) * EXT_NROW * EXT_NCOL)),
        off \in BOOLEAN, nodata \in {NANVAL, NaN}}

ExtInit ==
    /\ vtk = Vtk(Grid(EXT_NLAY, EXT_NROW, EXT_NCOL, NoIdomain, TRUE, TRUE),
                 TRUE, FALSE, "UnstructuredGrid", FALSE)
    /\ \E dataArray \in ExtArrays : arg = [made |-> TRUE, dataArray |-> dataArray]
    /\ xml = NoXml /\ loc = NoLoc
    /\ lastOp = Call("__init__", "")
    /\ result = "ok"
    /\ nops = 0

ExtendedDataArray ==
    /\ lastOp.op = "__init__"
    /\ loc' = [made |-> TRUE, matrix |-> extendedDataArray(vtk, arg.dataArray)]
    /\ lastOp' = Call("extendedDataArray", "")
    /\ UNCHANGED <<xml, vtk, result, nops, arg>>

SpecExt == ExtInit /\ [][ExtendedDataArray]_vars

\* ------------------------------------------------ ModflowHyd specification
\* ModflowHyd.__init__ (mfhyd.py).  The frame of a call holds the arguments,
\* the local names bound so far, the object under construction and the
\* package list of the model; a local name that is assigned somewhere in
\* the function and has not been bound yet is "unbound".
ObsRow(idx) ==
    [pckg |-> "BAS", arr |-> "HD", intyp |-> "I", klay |-> idx,
     xl |-> 0, yl |-> 0, hydlbl |-> "HOBS"]
ObsList(n) == [kind |-> "list", rows |-> [idx \in 1..n |-> ObsRow(idx)]]
ObsArray(n) == [kind |-> "ndarray", rows |-> [idx \in 1..n |-> ObsRow(idx)]]
NoHyd == [made |-> FALSE]

HydFrame(packagelist, nhyd, ihydun, obsdata, unit_number) ==
    [err |-> "ok",
     nhyd |-> nhyd, ihydun |-> ihydun, obsdata |-> obsdata,
     unit_number |-> unit_number,
     unitnumber |-> "unbound",
     units |-> <<>>,
     self |-> [made |-> TRUE, nhyd |-> 0, ihydun |-> 0, unit_number |-> <<>>,
               obsdata |-> ObsList(0)],
     packagelist |-> packagelist]

\* if unitnumber is None: unitnumber = ModflowHyd.defaultunit()
hyd_default_unit(fr) ==
    IF fr.unitnumber = "unbound" THEN Raise(fr, "UnboundLocalError")
    ELSE IF fr.unitnumber = "None" THEN Upd(fr, [fr EXCEPT !.unitnumber = 36])
    ELSE fr

\* ihydun = 536 on both branches; units = [unit_number, ihydun]
hyd_units(fr) ==
    Upd(fr, [fr EXCEPT !.ihydun = 536, !.units = <<fr.unit_number, 536>>])

\* Package.__init__(self, model, ..., unit_number=units, ...)
Package_init(fr) == Upd(fr, [fr EXCEPT !.self.unit_number = fr.units])

\* self.nhyd = nhyd; self.ihydun = ihydun
hyd_fields(fr) ==
    Upd(fr, [fr EXCEPT !.self.nhyd = fr.nhyd, !.self.ihydun = fr.ihydun])

\* the obsdata block: a list must have nhyd rows and is copied row by row
\* into get_empty(nhyd); anything else is stored as it is
hyd_obsdata(fr) ==
    IF fr.err # "ok" THEN fr
    ELSE IF fr.obsdata.kind = "list"
    THEN IF Len(fr.obsdata.rows) # fr.nhyd THEN Raise(fr, "RuntimeError")
         ELSE [fr EXCEPT !.self.obsdata =
                  [kind |-> "recarray",
                   rows |-> [idx \in 1..fr.nhyd |-> fr.obsdata.rows[idx]]]]
    ELSE [fr EXCEPT !.self.obsdata = fr.obsdata]

\* self.parent.add_package(self)
add_package(fr) == Upd(fr, [fr EXCEPT !.packagelist = Append(@, "HYD")])

ModflowHyd(packagelist, nhyd, ihydun, obsdata, unit_number) ==
    add_package(hyd_obsdata(hyd_fields(Package_init(hyd_units(hyd_default_unit(
        HydFrame(packagelist, nhyd, ihydun, obsdata, unit_number)))))))

HydObsdata ==
    {ObsList(n) : n \in 0..MaxHyd} \cup {ObsArray(n) : n \in 0..MaxHyd}

\* a model, with or without a package, and the arguments of the call; the
\* defaults are nhyd=1, ihydun=1, a list of one row and unit_number=None
HydInit ==
    /\ \E nhyd \in 0..MaxHyd, ihydun \in {0, 1}, obsdata \in HydObsdata,
          unit_number \in {"None", "40"} :
           arg = [made |-> TRUE, nhyd |-> nhyd, ihydun |-> ihydun,
                  obsdata |-> obsdata, unit_number |-> unit_number]
    /\ \E packagelist \in {<<>>, <<"DIS">>} :
           loc = [made |-> TRUE, packagelist |-> packagelist, hyd |-> NoHyd]
    /\ vtk = NoVtk /\ xml = NoXml
    /\ lastOp = Call("Modflow", "")
    /\ result = "ok"
    /\ nops = 0

\* hyd = ModflowHyd(m, nhyd=..., ihydun=..., obsdata=..., unit_number=...):
\* no object exists when the constructor raises
HydConstruct ==
    /\ lastOp.op = "Modflow"
    /\ result' = ModflowHyd(loc.packagelist, arg.nhyd, arg.ihydun,
                            arg.obsdata, arg.unit_number).err
    /\ loc' = [made |-> TRUE,
               packagelist |-> ModflowHyd(loc.packagelist, arg.nhyd,
                                          arg.ihydun, arg.obsdata,
                                          arg.unit_number).packagelist,
               hyd |-> IF result' = "ok"
                       THEN ModflowHyd(loc.packagelist, arg.nhyd, arg.ihydun,
                                       arg.obsdata, arg.unit_number).self
                       ELSE NoHyd]
    /\ lastOp' = Call("ModflowHyd", "")
    /\ UNCHANGED <<xml, vtk, nops, arg>>

SpecHyd == HydInit /\ [][HydConstruct]_vars

\* --------------------------------------- ascii write_array specification
\* XmlWriterAscii.write_array applied to an array of the shape of the grid,
\* cell n holding 12 * n or, for at most two cells, not-a-number, with no
\* mask or with a mask that is 0 for at most two cells; the writer is new or
\* has the CellData element open.
AsciiArrays ==
    {nd("float64", GridShape, [n \in Cells |-> IF n \in S THEN NaN ELSE 12 * n]) :
        S \in AtMostTwo(Cells)}
AsciiMasks ==
    {NoMask} \cup {Mask(nd("int64", GridShape,
                           [n \in Cells |-> IF n \in M THEN 0 ELSE 1])) :
                      M \in AtMostTwo(Cells)}

AsciiInit ==
    /\ xml \in {XmlWriterInterface(FALSE),
                open_element(XmlWriterInterface(FALSE), "CellData")}
    /\ \E array \in AsciiArrays, actwcells \in AsciiMasks :
           arg = [made |-> TRUE, array |-> array, actwcells |-> actwcells,
                  before |-> xml]
    /\ vtk = NoVtk /\ loc = NoLoc
    /\ lastOp = Call("__init__", "")
    /\ result = "ok"
    /\ nops = 0

AsciiWriteArray ==
    /\ lastOp.op = "__init__"
    /\ xml' = XmlWriterAscii_write_array(xml, arg.array, arg.actwcells,
                                         <<KwS("Name", "h")>>)
    /\ lastOp' = Call("write_array", "h")
    /\ result' = xml'.err
    /\ UNCHANGED <<vtk, loc, nops, arg>>

SpecAscii == AsciiInit /\ [][AsciiWriteArray]_vars

\* ------------------------------------- construction and export specification
\* A model grid of EXT_NLAY x EXT_NROW x EXT_NCOL cells exists; a Vtk object
\* is constructed for it, one constant array may be added, and write is called.
RequestedTypes ==
    {"auto", "ImageData", "RectilinearGrid", "UnstructuredGrid",
     "Grid", "PolyData"}

\* the grids: regular, rectilinear only, or neither; fully active (idomain
\* None) or with the first cell inactive; and one grid of another class
ExportGrids ==
    {Grid(EXT_NLAY, EXT_NROW, EXT_NCOL, idomain, f[1], f[2]) :
        idomain \in {NoIdomain,
                     Idomain(nd("int32", <<EXT_NLAY, EXT_NROW, EXT_NCOL>>,
                                [i \in 1..(EXT_NLAY * EXT_NROW * EXT_NCOL) |->
                                    IF i = 1 THEN 0 ELSE 1]))},
        f \in {<<TRUE, TRUE>>, <<FALSE, TRUE>>, <<FALSE, FALSE>>}}
    \cup {[Grid(EXT_NLAY, EXT_NROW, EXT_NCOL, NoIdomain, FALSE, FALSE)
              EXCEPT !.grid_type = "vertex"]}

ExportInit ==
    /\ \E modelgrid \in ExportGrids, smooth \in BOOLEAN,
          point_scalars \in BOOLEAN, binary \in BOOLEAN,
          requested \in RequestedTypes :
           arg = [made |-> TRUE, modelgrid |-> modelgrid, smooth |-> smooth,
                  point_scalars |-> point_scalars,
                  vtk_grid_type |-> requested, binary |-> binary]
    /\ vtk = NoVtk /\ xml = NoXml /\ loc = NoLoc
    /\ lastOp = Call("model", "")
    /\ result = "ok"
    /\ nops = 0

\* Vtk(model, smooth=..., point_scalars=..., vtk_grid_type=..., binary=...):
\* no object exists when the constructor raises
Construct ==
    /\ lastOp.op = "model"
    /\ result' = Vtk(arg.modelgrid, arg.smooth, arg.point_scalars,
                     arg.vtk_grid_type, arg.binary).err
    /\ vtk' = IF result' = "ok"
              THEN Vtk(arg.modelgrid, arg.smooth, arg.point_scalars,
                       arg.vtk_grid_type, arg.binary)
              ELSE NoVtk
    /\ lastOp' = Call("__init__", arg.vtk_grid_type)
    /\ UNCHANGED <<xml, loc, nops, arg>>

\* add_array('head', a) with a constant array of the shape of the grid
ExportAddArray ==
    /\ vtk.made /\ lastOp.op = "__init__"
    /\ \E value \in {60, 24} :
           vtk' = add_array(Caught(vtk), "head", np_full(vtk.shape, value), FALSE)
    /\ lastOp' = Call("add_array", "head")
    /\ result' = vtk'.err
    /\ UNCHANGED <<xml, loc, nops, arg>>

ExportWrite ==
    /\ vtk.made /\ lastOp.op \in {"__init__", "add_array"}
    /\ \E timeval \in TimeVals :
           LET r == write(Caught(vtk), timeval)
           IN  /\ vtk' = r.vtk
               /\ xml' = r.xml
               /\ loc' = r.loc
               /\ result' = r.vtk.err
    /\ lastOp' = Call("write", "")
    /\ UNCHANGED <<nops, arg>>

ExportNext == Construct \/ ExportAddArray \/ ExportWrite

SpecExport == ExportInit /\ [][ExportNext]_vars

\* ------------------------------------ export_heads, export_cbc specification
\* The result files (HeadFile, CellBudgetFile) are read through flopy
\* classes that are not part of this code.  A file holds every time step
\* kstp and stress period kper in 0..MaxStep; a budget file has unique
\* record names with one access method (imeth) each, and a record of a name
\* may be missing at some steps.
Steps == [i \in 1..(MaxStep + 1) |-> i - 1]

\* the argument kstpkper: None, a tuple, or a list of tuples
NoKstpkper == [kind |-> "none", pairs |-> <<>>]
KstpkperTuple(p) == [kind |-> "tuple", pairs |-> <<p>>]
KstpkperList(ps) == [kind |-> "list", pairs |-> ps]

\* the argument text: None, a str, or a list of str
NoText == [kind |-> "none", names |-> <<>>]
TextStr(name) == [kind |-> "str", names |-> <<name>>]
TextList(names) == [kind |-> "list", names |-> names]

\* kstplist and kperlist as export_heads and export_cbc build them
kstplist_of(kstpkper) ==
    IF kstpkper.kind = "none" THEN Steps
    ELSE [i \in 1..Len(kstpkper.pairs) |-> kstpkper.pairs[i][1]]
kperlist_of(kstpkper) ==
    IF kstpkper.kind = "none" THEN Steps
    ELSE [i \in 1..Len(kstpkper.pairs) |-> kstpkper.pairs[i][2]]

\* imeth_dict = {record: imeth for (record, imeth) in zip(records, imethlist)}
imeth_dict(cbb, name) ==
    cbb.imethlist[CHOOSE i \in 1..Len(cbb.records) : cbb.records[i] = name]

\* keylist
keylist_of(cbb, text) == IF text.kind = "none" THEN cbb.records ELSE text.names

\* a budget file: record names, their imeth, which names get_data can return
\* as a full 3D array, and the steps at which a record is missing
CellBudgetFile(records, imethlist, full3D, missing) ==
    [records |-> records, imethlist |-> imethlist, full3D |-> full3D,
     missing |-> missing]
has_record(cbb, kstp, kper, name) ==
    ~(name = cbb.missing /\ (kstp # 0 \/ kper # 0))

\* the value a file holds for a step and a name
file_value(kstp, kper, name) ==
    12 * (1 + kstp + (MaxStep + 1) * kper)
        + (IF name = "FLOW" THEN 0 ELSE IF name = "WELLS" THEN 1200 ELSE 2400)

\* an array with its mask; mask <<>> when the array is not masked
Arr(a, mask) == [a |-> a, mask |-> mask]
NoArr == Arr(NoNd, <<>>)

\* cbb.get_data(kstpkper=(kstp, kper), text=name, full3D=True):
\* [err, n, array], n = len(rec); the array has its last cell masked
get_data_full3D(cbb, kstp, kper, name) ==
    IF ~has_record(cbb, kstp, kper, name)
    THEN [err |-> "ok", n |-> 0, array |-> NoArr]
    ELSE IF name \notin cbb.full3D
    THEN [err |-> "ValueError", n |-> 0, array |-> NoArr]
    ELSE [err |-> "ok", n |-> 1,
          array |-> Arr(np_full(GridShape, file_value(kstp, kper, name)),
                        [i \in Cells |-> i = NCELLS])]

\* array = np.full(shape, nanval); array[lyr, row, col] = q for the list
\* record cbb.get_data(kstpkper=(kstp, kper), text=name)[0], which holds
\* one entry, for node 1
list_array(kstp, kper, name) ==
    Arr(nd("float64", GridShape,
           [i \in Cells |-> IF i = 1 THEN file_value(kstp, kper, name)
                            ELSE NANVAL]),
        <<>>)

\* hds.get_data((kstp, kper))
hds_get_data(kstp, kper) == np_full(GridShape, file_value(kstp, kper, "head"))

\* if ma.is_masked(array): array = np.where(array.mask, nanval, array)
unmasked(array) ==
    IF array.mask = <<>> THEN array.a
    ELSE nd(array.a.dtype, array.a.shape,
            [i \in 1..Len(array.a.data) |->
                IF array.mask[i] THEN NANVAL ELSE array.a.data[i]])

\* the locals of export_cbc that live across the loops: [vtk, addarray,
\* array, err]; "if addarray: ... vtk.add_array(name.strip(), array)"
cbc_add_array(st, name) ==
    IF st.err # "ok" \/ ~st.addarray THEN st
    ELSE [st EXCEPT !.vtk = add_array(st.vtk, name, unmasked(st.array), FALSE),
                    !.array = Arr(unmasked(st.array), <<>>),
                    !.err = add_array(st.vtk, name, unmasked(st.array), FALSE).err]

\* the except ValueError branch printing a message instead of raising
cbc_list_record_skip(st, cbb, kstp, kper, name) ==
    IF imeth_dict(cbb, name) = 6
    THEN [st EXCEPT !.array = list_array(kstp, kper, name), !.addarray = TRUE]
    ELSE st

\* the except ValueError branch of export_cbc
cbc_list_record(st, cbb, kstp, kper, name) ==
    IF imeth_dict(cbb, name) = 6
    THEN [st EXCEPT !.array = list_array(kstp, kper, name), !.addarray = TRUE]
    ELSE [st EXCEPT !.err = "Exception"]

\* the try statement of export_cbc, rec being the outcome of get_data
cbc_try(st, cbb, kstp, kper, name, rec) ==
    IF rec.err # "ok" THEN cbc_list_record(st, cbb, kstp, kper, name)
    ELSE IF rec.n > 0 THEN [st EXCEPT !.array = rec.array, !.addarray = TRUE]
    ELSE st

\* the body of "for name in keylist", from the n-th name
RECURSIVE cbc_names(_, _, _, _, _, _)
cbc_names(st, cbb, kstp, kper, keylist, n) ==
    IF n > Len(keylist) \/ st.err # "ok" THEN st
    ELSE cbc_names(
             cbc_add_array(
                 cbc_try(st, cbb, kstp, kper, keylist[n],
                         get_data_full3D(cbb, kstp, kper, keylist[n])),
                 keylist[n]),
             cbb, kstp, kper, keylist, n + 1)

\* the step and the period of the i-th pass (from 0) through the two loops
kper_at(l, i) == l.kperlist[(i \div Len(l.kstplist)) + 1]
kstp_at(l, i) == l.kstplist[(i % Len(l.kstplist)) + 1]

DataSet(timestep, kper, kstp) ==
    [timestep |-> timestep, kper |-> kper, kstp |-> kstp]
Written(kper, kstp, r) ==
    [kper |-> kper, kstp |-> kstp, arrays |-> r.loc.arrays, path |-> r.loc.path]

\* the locals of an export function before its loops
export_locals(fn, a, count) ==
    [made |-> TRUE, fn |-> fn,
     kstplist |-> kstplist_of(a.kstpkper),
     kperlist |-> kperlist_of(a.kstpkper),
     keylist |-> IF fn = "export_cbc" THEN keylist_of(a.cbb, a.text) ELSE <<>>,
     i |-> 0, count |-> count,
     addarray |-> FALSE, array |-> NoArr,
     pvd |-> <<>>, pvd_open |-> TRUE, writes |-> <<>>, done |-> FALSE]

\* one pass of export_heads, r being the outcome of vtk.write(otfile)
heads_pass(l, r) ==
    [vtk |-> r.vtk, xml |-> r.xml,
     loc |-> IF r.vtk.err # "ok"
             THEN [l EXCEPT !.done = TRUE,
                            !.writes = Append(@, Written(kper_at(l, l.i),
                                                         kstp_at(l, l.i), r))]
             ELSE [l EXCEPT !.i = @ + 1, !.count = @ + 1,
                            !.writes = Append(@, Written(kper_at(l, l.i),
                                                         kstp_at(l, l.i), r)),
                            !.pvd = Append(@, DataSet(l.count, kper_at(l, l.i),
                                                      kstp_at(l, l.i)))]]

\* one pass of export_cbc after "for name in keylist" left st, and after
\* vtk.write(otfile) gave r
cbc_written(l, st, r) ==
    [vtk |-> r.vtk, xml |-> r.xml,
     loc |-> [l EXCEPT !.i = IF r.vtk.err = "ok" THEN @ + 1 ELSE @,
                       !.count = IF r.vtk.err = "ok" THEN @ + 1 ELSE @,
                       !.done = r.vtk.err # "ok",
                       !.addarray = st.addarray, !.array = st.array,
                       !.writes = Append(@, Written(kper_at(l, l.i),
                                                    kstp_at(l, l.i), r)),
                       !.pvd = Append(@, DataSet(l.count, kper_at(l, l.i),
                                                 kstp_at(l, l.i)))]]
cbc_pass(l, x, st) ==
    IF st.err # "ok"
    THEN [vtk |-> [st.vtk EXCEPT !.err = st.err], xml |-> x,
          loc |-> [l EXCEPT !.done = TRUE,
                            !.addarray = st.addarray, !.array = st.array,
                            !.pvd = Append(@, DataSet(l.count, kper_at(l, l.i),
                                                      kstp_at(l, l.i)))]]
    ELSE cbc_written(l, st, write(st.vtk, NoTime))

BudgetFiles ==
    {CellBudgetFile(<<"FLOW", "WELLS">>, <<1, 6>>, {"FLOW"}, missing) :
        missing \in {"", "FLOW", "WELLS"}}
    \cup {CellBudgetFile(<<"FLOW", "WELLS", "DRAINS">>, <<1, 6, 5>>, {"FLOW"}, ""),
          CellBudgetFile(<<"FLOW", "DRAINS">>, <<1, 6>>, {"FLOW"}, "")}

KstpkperArgs ==
    {NoKstpkper, KstpkperTuple(<<0, 0>>),
     KstpkperList(<< <<0, 0>>, <<MaxStep, MaxStep>> >>),
     KstpkperList(<< <<0, 0>>, <<MaxStep, 0>> >>)}

TextArgs == {NoText, TextStr("FLOW"), TextList(<<"WELLS", "FLOW">>)}

FilesInit ==
    /\ \E kstpkper \in KstpkperArgs, vtk_grid_type \in {"auto", "UnstructuredGrid"} :
           \/ arg = [made |-> TRUE, fn |-> "export_heads", kstpkper |-> kstpkper,
                     vtk_grid_type |-> vtk_grid_type]
           \/ \E cbb \in BudgetFiles, text \in TextArgs :
                  \* the names asked for are record names of the file
                  /\ \A n \in 1..Len(text.names) :
                         \E m \in 1..Len(cbb.records) :
                             cbb.records[m] = text.names[n]
                  /\ arg = [made |-> TRUE, fn |-> "export_cbc", kstpkper |-> kstpkper,
                         vtk_grid_type |-> vtk_grid_type, cbb |-> cbb, text |-> text]
    /\ vtk = NoVtk /\ xml = NoXml /\ loc = NoLoc
    /\ lastOp = Call("model", "")
    /\ result = "ok"
    /\ nops = 0

\* export_heads / export_cbc up to their loops
ExportBegin ==
    /\ lastOp.op = "model"
    /\ vtk' = Vtk(StructuredGrid(NoIdomain, TRUE, TRUE), FALSE, FALSE,
                  arg.vtk_grid_type, FALSE)
    /\ loc' = export_locals(arg.fn, arg, IF arg.fn = "export_cbc" THEN 1 ELSE 0)
    /\ lastOp' = Call(arg.fn, "begin")
    /\ UNCHANGED <<xml, result, nops, arg>>

Running(fn) ==
    /\ loc.made /\ loc.fn = fn /\ ~loc.done
    /\ loc.i < Len(loc.kperlist) * Len(loc.kstplist)

Passed(fn, nxt) ==
    /\ vtk' = nxt.vtk /\ xml' = nxt.xml /\ loc' = nxt.loc
    /\ result' = IF nxt.vtk.err = "ok" THEN "ok" ELSE nxt.vtk.err
    /\ lastOp' = Call(fn, IF nxt.vtk.err = "ok" THEN "pass" ELSE "raise")
    /\ UNCHANGED <<nops, arg>>

\* one pass through the body of the loops of export_heads
HeadsPass ==
    /\ Running("export_heads")
    /\ Passed("export_heads",
              heads_pass(loc, write(add_array(vtk, "head",
                                              hds_get_data(kstp_at(loc, loc.i),
                                                           kper_at(loc, loc.i)),
                                              FALSE),
                                    NoTime)))

\* one pass through the body of the loops of export_cbc
CbcPass ==
    /\ Running("export_cbc")
    /\ Passed("export_cbc",
              cbc_pass(loc, xml,
                       cbc_names([vtk |-> vtk, addarray |-> loc.addarray,
                                  array |-> loc.array, err |-> "ok"],
                                 arg.cbb, kstp_at(loc, loc.i),
                                 kper_at(loc, loc.i), loc.keylist, 1)))

\* the end of the export function: the collection file is closed
ExportReturn ==
    /\ loc.made /\ ~loc.done
    /\ loc.i = Len(loc.kperlist) * Len(loc.kstplist)
    /\ loc' = [loc EXCEPT !.done = TRUE, !.pvd_open = FALSE]
    /\ lastOp' = Call(loc.fn, "return")
    /\ UNCHANGED <<xml, vtk, result, nops, arg>>

FilesNext == ExportBegin \/ HeadsPass \/ CbcPass \/ ExportReturn

SpecFiles == FilesInit /\ [][FilesNext]_vars

\* =============================================== properties of the writers
Last(q) == q[Len(q)]

\* bytes that struct.pack produces for one queued record
PayloadLen(rec) == Len(rec.a.data) * struct_size(np_to_struct(rec.a.dtype))

\* sum over the first k records of (payload bytes + the 8-byte prefix)
RECURSIVE SumPrior(_, _)
SumPrior(q, k) ==
    IF k = 0 THEN 0 ELSE SumPrior(q, k - 1) + PayloadLen(q[k]) + 8

\* the offset attributes of the DataArray elements that write_array completed
\* (offset is the last attribute, so ">" and "</DataArray>" follow it)
RECURSIVE DeclaredFrom(_, _)
DeclaredFrom(out, i) ==
    IF i > Len(out) THEN <<>>
    ELSE (IF /\ out[i].k = "attr" /\ out[i].s = "offset"
             /\ i + 2 <= Len(out)
             /\ out[i + 1].k = "gt"
             /\ out[i + 2].k = "close" /\ out[i + 2].s = "DataArray"
          THEN <<out[i].n>> ELSE <<>>) \o DeclaredFrom(out, i + 1)
DeclaredOffsets(w) == DeclaredFrom(w.out, 1)

\* C1: in XmlWriterBinary the offset attribute declared for the k-th array
\* equals the sum over all earlier arrays of (payload byte length + 8), the
\* first array being declared at offset 0.
C1_DeclaredOffsets ==
    xml.binary =>
        /\ Len(DeclaredOffsets(xml)) = Len(xml.processed_arrays)
        /\ \A k \in 1..Len(xml.processed_arrays) :
               DeclaredOffsets(xml)[k] = SumPrior(xml.processed_arrays, k - 1)

C1_Witness ==
    /\ xml.binary /\ lastOp.op = "write_array" /\ result = "ok"
    /\ Len(xml.processed_arrays) = 3
    /\ PayloadLen(xml.processed_arrays[1]) # PayloadLen(xml.processed_arrays[2])
    /\ DeclaredOffsets(xml)[3] > DeclaredOffsets(xml)[2]

\* positions of the tokens that open an AppendedData element
AppendedOpens(out) ==
    {i \in 1..Len(out) : out[i].k = "open" /\ out[i].s = "AppendedData"}
SetMax(S) == CHOOSE m \in S : \A x \in S : x <= m
IsPayload(tok) == tok.k \in {"size", "bytes"}

\* the raw bytes of the last AppendedData element: the tokens after its "_"
AppendedSection(out) ==
    LET o == SetMax(AppendedOpens(out))
        u == CHOOSE i \in o..Len(out) :
                 /\ out[i].k = "text" /\ out[i].s = "_"
                 /\ \A j \in o..(i - 1) : out[j].k # "text"
        c == CHOOSE i \in u..Len(out) :
                 /\ out[i].k = "close" /\ out[i].s = "AppendedData"
                 /\ \A j \in u..(i - 1) : out[j].k # "close"
    IN  SubSeq(out, u + 1, c - 1)      \* up to the "\n</AppendedData>"

\* byte length of a token of the appended section
TokLen(tok) == IF tok.k = "size" THEN 8 ELSE tok.n
RECURSIVE BytesBefore(_, _)
BytesBefore(sec, i) ==
    IF i <= 1 THEN 0 ELSE BytesBefore(sec, i - 1) + TokLen(sec[i - 1])

\* C2: no payload reaches the output before final(); final() writes one
\* AppendedData element holding, for every queued record in enqueue order,
\* an 8-byte prefix equal to the record's byte length followed by exactly
\* that many payload bytes, so each prefix sits at the offset declared for
\* its array by write_array.
C2_AppendedLayout ==
    /\ AppendedOpens(xml.out) = {} =>
           \A i \in 1..Len(xml.out) : ~IsPayload(xml.out[i])
    /\ (xml.binary /\ lastOp.op = "final" /\ result = "ok") =>
           LET sec == AppendedSection(xml.out)
               q == xml.processed_arrays
           IN  /\ Len(sec) = 2 * Len(q)
               /\ \A k \in 1..Len(q) :
                      /\ sec[2 * k - 1].k = "size"
                      /\ sec[2 * k - 1].n = PayloadLen(q[k])
                      /\ sec[2 * k].k = "bytes"
                      /\ sec[2 * k].n = sec[2 * k - 1].n
                      /\ sec[2 * k].d = q[k].a.data
                      /\ BytesBefore(sec, 2 * k - 1) = DeclaredOffsets(xml)[k]

C2_Witness ==
    /\ xml.binary /\ lastOp.op = "final" /\ result = "ok"
    /\ Len(xml.processed_arrays) = 3
    /\ DeclaredOffsets(xml)[3] > DeclaredOffsets(xml)[2]
    /\ Len(AppendedSection(xml.out)) = 6

\* C3: final succeeds if and only if only the outermost element remains to
\* be closed, and after a successful final the element stack is empty.
C3_FinalIffOnlyOutermost ==
    [][lastOp'.op = "final" =>
          /\ (result' = "ok") <=> (xml.current = <<"VTKFile">>)
          /\ (result' = "ok") => (xml'.current = <<>>)]_vars

\* C4: a close_element(tag) whose tag differs from the top of the stack
\* fails, and no close removes an element other than the one it names.
C4_MismatchedCloseRemovesNothing ==
    [][(lastOp'.op = "close_element" /\ lastOp'.arg # NoTag) =>
          /\ (xml.current = <<>> \/ Last(xml.current) # lastOp'.arg)
                 => result' # "ok"
          /\ (xml'.current # xml.current)
                 => (xml.current # <<>> /\ Last(xml.current) = lastOp'.arg)]_vars

\* ============================================== properties of the exporter
\* the shape add_array expects for the array it is given
Matching(v, a, array2d) ==
    IF array2d THEN a.shape = v.shape2d ELSE a.shape = v.shape

\* C5: after a call of Vtk.write that returns, the early return taken for
\* zero active cells included, the buffer of named arrays is empty.
C5_BufferEmptyAfterWrite ==
    (lastOp.op = "write" /\ result = "ok") => vtk.arrays = <<>>

\* C6: the file handle opened by the writer of a Vtk.write call has been
\* released exactly once when the call is over, on every path.
C6_HandleReleasedOnce ==
    lastOp.op = "write" => (xml.f = "closed" /\ xml.closes = 1)

\* C7: a Vtk.write for unstructured output with no active cell returns
\* without raising and has produced no output content.
C7_NoOutputWhenNoActiveCell ==
    (/\ lastOp.op = "write"
     /\ ~loc.actwcells3d.none
     /\ \A i \in Cells : loc.actwcells3d.a.data[i] = 0)
        => (result = "ok" /\ xml.out = <<>>)

\* C8: add_array with an array whose shape does not match (the 3-d shape
\* without array2d, the 2-d shape with it) returns normally and leaves the
\* buffer of named arrays unchanged.
C8_MismatchSilentlySkipped ==
    [][(lastOp'.op = "add_array" /\ ~Matching(vtk, arg'.a, arg'.array2d)) =>
          (result' = "ok" /\ vtk'.arrays = vtk.arrays)]_vars

\* what add_array is to store for the array a (a 2-d array fills layer 0)
Normalized(v, a, array2d) ==
    [i \in Cells |->
        IF i > Len(a.data) \/ a.data[i] = v.nanval \/ v.ibound.data[i] = 0
        THEN NaN ELSE a.data[i]]

\* C9: add_array(name, a) with a matching shape stores under name a float
\* array that is not-a-number exactly where a is the sentinel or the mask is
\* 0 and a's value elsewhere; it replaces an array stored under name, leaves
\* the other names alone, and the stored array is not the caller's object:
\* a later assignment by the caller to its array changes no stored array.
C9_AddArrayNormalizes ==
    [][/\ (lastOp'.op = "add_array" /\ Matching(vtk, arg'.a, arg'.array2d)) =>
              LET name == lastOp'.arg
              IN  /\ result' = "ok"
                  /\ Names(vtk'.arrays) = Names(vtk.arrays) \cup {name}
                  /\ Len(vtk'.arrays) = Cardinality(Names(vtk'.arrays))
                  /\ Get(vtk'.arrays, name).a =
                         nd("float64", vtk.shape,
                            Normalized(vtk, arg'.a, arg'.array2d))
                  /\ \A other \in Names(vtk.arrays) \ {name} :
                         Get(vtk'.arrays, other).a = Get(vtk.arrays, other).a
       /\ lastOp'.op = "caller_write" =>
              /\ arg'.a # arg.a
              /\ vtk'.arrays = vtk.arrays]_vars

\* the caller has changed the array it passed after add_array replaced one
\* of two stored arrays by its normalized copy
C9_Witness ==
    /\ lastOp.op = "caller_write" /\ arg.a.data[1] = 84
    /\ Len(vtk.arrays) = 2
    /\ \E n \in 1..2 :
           LET stored == vtk.arrays[n].a.data
           IN  /\ stored[1] = 12
               /\ \A i \in Cells \ {1} : stored[i] = arg.a.data[i]
               /\ \E i \in Cells : stored[i] = NaN
    /\ \E n \in 1..2 : \E i \in Cells :
           vtk.arrays[n].a.data[i] = NaN /\ vtk.ibound.data[i] # 0

\* the cells (numbered from 1) that a write for unstructured output emitted
EmittedCells == {loc.cellids[c] + 1 : c \in 1..Len(loc.cellids)}

\* a real value: neither the sentinel nor not-a-number
Real(x) == x # NaN /\ x # NANVAL

\* the NumberOfCells attribute in the output, 0 when there is none
NumberOfCellsFrom(out, i) ==
    LET at == {j \in i..Len(out) :
                  out[j].k = "attr" /\ out[j].s = "NumberOfCells"}
    IN  IF at = {} THEN 0
        ELSE out[CHOOSE j \in at : \A m \in at : j <= m].n

\* C10: a write for unstructured output emits a cell if and only if the
\* static active mask is nonzero there and some buffered array holds a real
\* value there.
C10_EmittedIffActiveAndReal ==
    (lastOp.op = "write" /\ ~loc.actwcells3d.none) =>
        /\ EmittedCells =
               {i \in Cells :
                   /\ vtk.ibound.data[i] # 0
                   /\ \E n \in 1..Len(loc.arrays) :
                          Real(loc.arrays[n].a.data[i])}
        /\ NumberOfCellsFrom(xml.out, 1) = Cardinality(EmittedCells)

\* two buffered arrays, a cell left out although the mask is nonzero, a cell
\* emitted for the value of one array only
C10_Witness ==
    /\ lastOp.op = "write" /\ ~loc.actwcells3d.none /\ result = "ok"
    /\ Len(loc.arrays) = 2
    /\ \E i \in Cells : vtk.ibound.data[i] # 0 /\ i \notin EmittedCells
    /\ \E i \in EmittedCells :
           /\ ~Real(loc.arrays[1].a.data[i])
           /\ Real(loc.arrays[2].a.data[i])

\* the DataArray elements of a document, in order: [open, name, cell, text],
\* cell telling whether the element lies in CellData and text being the
\* numbers of its text lines
\* the positions in out, in order, of the tokens that satisfy Test
Positions(out, Test(_)) == SelectSeq([i \in 1..Len(out) |-> i], Test)
IsTok(tok, k, s) == tok.k = k /\ tok.s = s
\* the token at i lies inside the CellData element
InCellData(out, i) ==
    \E j \in 1..(i - 1) :
        /\ IsTok(out[j], "open", "CellData")
        /\ \A m \in (j + 1)..(i - 1) : ~IsTok(out[m], "close", "CellData")
\* the DataArray start tag at o is closed at c by its own end tag
ArrayCloses(out, o, c) ==
    /\ c > o /\ IsTok(out[c], "close", "DataArray")
    /\ \A m \in (o + 1)..(c - 1) : ~IsTok(out[m], "close", "DataArray")
ArrayEnd(out, o) == CHOOSE c \in 1..Len(out) : ArrayCloses(out, o, c)
ArrayAt(out, o, c) ==
    [open |-> TRUE,
     name |-> IF \E i \in o..c : IsTok(out[i], "attr", "Name")
              THEN out[CHOOSE i \in o..c : IsTok(out[i], "attr", "Name")].v
              ELSE "",
     cell |-> InCellData(out, o),
     text |-> FlattenSeq([n \in 1..Len(Positions(out,
                              LAMBDA i : i \in o..c /\ out[i].k = "text")) |->
                 out[Positions(out,
                         LAMBDA i : i \in o..c /\ out[i].k = "text")[n]].d])]
ClosedArrays(out) ==
    Positions(out, LAMBDA o : /\ IsTok(out[o], "open", "DataArray")
                              /\ \E c \in 1..Len(out) : ArrayCloses(out, o, c))
DataArrays(w) ==
    [k \in 1..Len(ClosedArrays(w.out)) |->
        ArrayAt(w.out, ClosedArrays(w.out)[k],
                ArrayEnd(w.out, ClosedArrays(w.out)[k]))]

\* the values of the k-th DataArray of the document: its text in ascii, the
\* payload queued for it in binary
ValuesOf(w, k) ==
    IF w.binary THEN w.processed_arrays[k].a.data ELSE DataArrays(w)[k].text

\* the values the document is to hold for the stored array data: those of
\* the emitted cells, in order, a NaN written as -1e9 in ascii
ExpectedValues(w, data, cellids) ==
    [j \in 1..Len(cellids) |->
        IF data[cellids[j] + 1] = NaN /\ ~w.binary THEN ASCII_NAN
        ELSE data[cellids[j] + 1]]

\* C11: every buffered array appears in the document of a completed write
\* for unstructured output as exactly one DataArray in CellData, holding for
\* the emitted cells, and for no other cell, the stored values (a NaN as -1e9
\* in ascii), also when the buffered arrays have different no-data cells.
C11_RoundTrip ==
    (lastOp.op = "write" /\ loc.path = "end" /\ ~loc.actwcells3d.none) =>
        \A n \in 1..Len(loc.arrays) :
            LET ks == {k \in 1..Len(DataArrays(xml)) :
                          /\ DataArrays(xml)[k].cell
                          /\ DataArrays(xml)[k].name = loc.arrays[n].name}
            IN  /\ Cardinality(ks) = 1
                /\ \A k \in ks :
                       ValuesOf(xml, k) =
                           ExpectedValues(xml, loc.arrays[n].a.data,
                                          loc.cellids)

\* the cells (numbered from 1) selected by the argument of the call
Selected ==
    LET act == IF arg.actwcells.none THEN vtk.ibound ELSE arg.actwcells.a
    IN  {i \in Cells : act.data[i] # 0}

\* C12: get_3d_vertex_connectivity gives one entry per selected cell, keyed
\* by the linear id lay*nrow*ncol + row*ncol + col, in layer/row/column
\* order, the n-th entry (from 0) holding the point indices 8n..8n+7; a
\* fully active grid gives NLAY*NROW*NCOL cells and 8 times as many points.
C12_ContiguousPoints ==
    lastOp.op = "get_3d_vertex_connectivity" =>
        LET conn == loc.conn
        IN  /\ Len(conn) = Cardinality(Selected)
            /\ {conn[n].cellid + 1 : n \in 1..Len(conn)} = Selected
            /\ \A n \in 1..(Len(conn) - 1) : conn[n].cellid < conn[n + 1].cellid
            /\ \A n \in 1..Len(conn) :
                   /\ conn[n].ivert = [m \in 1..8 |-> 8 * (n - 1) + m - 1]
                   /\ (~vtk.smooth /\ vtk.modelgrid.is_rectilinear) =>
                          LET lay == conn[n].cellid \div (NROW * NCOL)
                              row == (conn[n].cellid % (NROW * NCOL)) \div NCOL
                              col == conn[n].cellid % NCOL
                          IN  /\ conn[n].zverts[1] = 12 * (NLAY - (lay + 1))
                              /\ conn[n].zverts[5] = 12 * (NLAY - lay)
                              /\ conn[n].verts[3][1] = 12 * col
                              /\ conn[n].verts[3][2] = 12 * (NROW - row)
            /\ Selected = Cells =>
                   /\ Len(conn) = NLAY * NROW * NCOL
                   /\ conn[Len(conn)].ivert[8] + 1 = 8 * NLAY * NROW * NCOL

\* a selection with a gap: a cell left out between two emitted cells, the
\* later one taking the next eight point indices
C12_Witness ==
    /\ lastOp.op = "get_3d_vertex_connectivity" /\ ~vtk.smooth
    /\ Len(loc.conn) = 2
    /\ loc.conn[2].cellid > loc.conn[1].cellid + 1
    /\ loc.conn[2].ivert[1] = 8

\* the value of the cell [row, col] in the layer of dataArray that the
\* grid-line layer lay reads (the first layer is doubled for nlay layers)
CellOf(dataArray, lay, row, col) ==
    At3(dataArray,
        IF dataArray.shape[1] = vtk.nlay + 1 THEN lay
        ELSE IF lay = 0 THEN 0 ELSE lay - 1,
        row, col)

\* the cells around the grid-line intersection [row, col] that lie in the
\* grid and do not hold the sentinel
DataNeighbours(dataArray, lay, row, col) ==
    {rc \in {row - 1, row} \X {col - 1, col} :
        /\ rc[1] \in 0..(vtk.nrow - 1) /\ rc[2] \in 0..(vtk.ncol - 1)
        /\ CellOf(dataArray, lay, rc[1], rc[2]) # NANVAL}

RECURSIVE SumOver(_, _, _)
SumOver(dataArray, lay, S) ==
    IF S = {} THEN 0
    ELSE LET rc == CHOOSE x \in S : TRUE
         IN  CellOf(dataArray, lay, rc[1], rc[2])
             + SumOver(dataArray, lay, S \ {rc})

\* C13: extendedDataArray gives at each grid-line intersection the mean of
\* the neighbouring cells (at most 4) that lie in the grid and do not hold
\* the sentinel, and the sentinel when there is no such cell.  (The mean of
\* values one of which is not-a-number is not-a-number.)
C13_VertexMeans ==
    lastOp.op = "extendedDataArray" =>
        /\ loc.matrix.shape = <<vtk.nlay + 1, vtk.nrow + 1, vtk.ncol + 1>>
        /\ \A lay \in 0..vtk.nlay, row \in 0..vtk.nrow, col \in 0..vtk.ncol :
               LET D == DataNeighbours(arg.dataArray, lay, row, col)
                   m == At3(loc.matrix, lay, row, col)
               IN  IF D = {} THEN m = NANVAL
                   ELSE IF \E rc \in D :
                               CellOf(arg.dataArray, lay, rc[1], rc[2]) = NaN
                   THEN m = NaN
                   ELSE m * Cardinality(D) = SumOver(arg.dataArray, lay, D)

\* the three examples (values in units of 12): four cells 1, 2, 3, 4 give
\* 2.5, an edge with the cells 1 and 3 gives 2, a corner whose only cell
\* holds the sentinel gives the sentinel
C13_Witness ==
    /\ lastOp.op = "extendedDataArray"
    /\ arg.dataArray.shape[1] = vtk.nlay + 1
    /\ SubSeq(arg.dataArray.data, 1, 4) = <<12, 24, 36, 48>>
    /\ At3(loc.matrix, 0, 1, 1) = 30
    /\ At3(loc.matrix, 0, 1, 0) = 24
    /\ At3(arg.dataArray, 1, 0, 0) = NANVAL
    /\ At3(loc.matrix, 1, 0, 0) = NANVAL

\* the value of the first attribute key in the output, -1 when there is none
AttrFrom(out, key) ==
    LET at == {j \in 1..Len(out) : out[j].k = "attr" /\ out[j].s = key}
    IN  IF at = {} THEN -1
        ELSE out[CHOOSE j \in at : \A m \in at : j <= m].n

\* the text lines of the DataArray elements in CellData, each as the list of
\* its numbers
CellDataLines(out) ==
    [n \in 1..Len(Positions(out, LAMBDA i : out[i].k = "text"
                                              /\ InCellData(out, i))) |->
        out[Positions(out, LAMBDA i : out[i].k = "text"
                                       /\ InCellData(out, i))[n]].d]

\* write was called for ascii unstructured output of a fully active grid
\* with one buffered array that is 5.0 everywhere (60 in units of 1/12)
EndToEndCase ==
    /\ lastOp.op = "write" /\ loc.made
    /\ ~vtk.binary /\ vtk.vtk_grid_type = "UnstructuredGrid"
    /\ \A i \in 1..Len(vtk.ibound.data) : vtk.ibound.data[i] # 0
    /\ Len(loc.arrays) = 1
    /\ \A i \in 1..Len(loc.arrays[1].a.data) : loc.arrays[1].a.data[i] = 60

\* C14 (as amended): the end-to-end export of one nlay x nrow x ncol array of
\* 5.0 on a fully active grid, ascii and unstructured, has nlay*nrow*ncol
\* cells, 8 times as many points and one DataArray in CellData with one text
\* line per layer holding nrow*ncol times 5.0: for 2 x 2 x 2, 8 cells, 64
\* points and two lines "5.0 5.0 5.0 5.0".
C14_EndToEnd ==
    EndToEndCase =>
        /\ result = "ok" /\ loc.path = "end"
        /\ AttrFrom(xml.out, "NumberOfCells") = vtk.nlay * vtk.nrow * vtk.ncol
        /\ AttrFrom(xml.out, "NumberOfPoints")
               = 8 * vtk.nlay * vtk.nrow * vtk.ncol
        /\ Cardinality({k \in 1..Len(DataArrays(xml)) : DataArrays(xml)[k].cell}) = 1
        /\ CellDataLines(xml.out)
               = [lay \in 1..vtk.nlay |-> [n \in 1..(vtk.nrow * vtk.ncol) |-> 60]]
        /\ vtk.shape = <<2, 2, 2>> =>
               /\ AttrFrom(xml.out, "NumberOfCells") = 8
               /\ AttrFrom(xml.out, "NumberOfPoints") = 64
               /\ CellDataLines(xml.out)
                      = << <<60, 60, 60, 60>>, <<60, 60, 60, 60>> >>

C14_Witness ==
    /\ EndToEndCase
    /\ vtk.shape = <<2, 2, 2>>
    /\ result = "ok"
    /\ CellDataLines(xml.out)
           = << <<60, 60, 60, 60>>, <<60, 60, 60, 60>> >>

\* C14 as stated: each layer line of the 2 x 2 x 2 export holds eight times
\* 5.0
C14_EightPerLayerLine ==
    (EndToEndCase /\ vtk.shape = <<2, 2, 2>>) =>
        /\ AttrFrom(xml.out, "NumberOfCells") = 8
        /\ AttrFrom(xml.out, "NumberOfPoints") = 64
        /\ Cardinality({k \in 1..Len(DataArrays(xml)) : DataArrays(xml)[k].cell}) = 1
        /\ \A l \in 1..Len(CellDataLines(xml.out)) :
               CellDataLines(xml.out)[l]
                   = <<60, 60, 60, 60, 60, 60, 60, 60>>

\* the override given to the constructor is one the exporter must refuse
InvalidOverride ==
    /\ arg.vtk_grid_type # "auto"
    /\ \/ arg.vtk_grid_type \notin {"ImageData", "RectilinearGrid",
                                    "UnstructuredGrid"}
       \/ arg.vtk_grid_type = "ImageData" /\ ~arg.modelgrid.is_regular
       \/ arg.vtk_grid_type = "RectilinearGrid" /\ ~arg.modelgrid.is_rectilinear

\* C15: constructing a Vtk with a grid representation that is not one of the
\* three supported names, or is ImageData for a grid that is not regular, or
\* RectilinearGrid for a grid that is not rectilinear, raises an error in the
\* constructor: no object with such an override exists and none is written.
C15_InvalidOverrideRaises ==
    (lastOp.op # "model" /\ InvalidOverride) =>
        /\ ~vtk.made
        /\ lastOp.op = "__init__"
        /\ result \in {"ValueError", "NotImplementedError", "AssertionError"}

\* the type attribute of the VTKFile element of a document
RootType(out) ==
    out[CHOOSE j \in 1..Len(out) :
            /\ IsTok(out[j], "attr", "type")
            /\ \A m \in 1..(j - 1) : ~IsTok(out[m], "attr", "type")].v

\* C16: with vtk_grid_type='auto' a regular grid is exported as ImageData
\* with extension .vti, a rectilinear grid that is not regular as
\* RectilinearGrid with .vtr and any other grid as UnstructuredGrid with
\* .vtu; a write names the chosen representation in the document, and the
\* extension of every supported representation is its own.
C16_AutoSelection ==
    /\ (lastOp.op # "model" /\ arg.vtk_grid_type = "auto"
            /\ arg.modelgrid.grid_type = "structured") =>
           /\ vtk.made
           /\ vtk.vtk_grid_type =
                  IF arg.modelgrid.is_regular THEN "ImageData"
                  ELSE IF arg.modelgrid.is_rectilinear THEN "RectilinearGrid"
                  ELSE "UnstructuredGrid"
           /\ lastOp.op = "write" => RootType(xml.out) = vtk.vtk_grid_type
    /\ (lastOp.op # "model" /\ vtk.made) =>
           /\ vtk.vtk_grid_type = "ImageData" => vtk.file_extension = ".vti"
           /\ vtk.vtk_grid_type = "RectilinearGrid" => vtk.file_extension = ".vtr"
           /\ vtk.vtk_grid_type = "UnstructuredGrid" => vtk.file_extension = ".vtu"

C16_Witness ==
    /\ lastOp.op = "write"
    /\ arg.vtk_grid_type = "auto"
    /\ ~arg.modelgrid.is_regular /\ arg.modelgrid.is_rectilinear
    /\ vtk.vtk_grid_type = "RectilinearGrid" /\ vtk.file_extension = ".vtr"
    /\ RootType(xml.out) = "RectilinearGrid"

\* the positions of the start tags of an element in a document
StartsOf(out, tag) == {j \in 1..Len(out) : IsTok(out[j], "open", tag)}

\* C17: a write called with a time value, whatever the value and the grid
\* representation, completes, and its document has a FieldData element
\* holding the TimeValue array before the Piece element.
C17_TimeValueWritten ==
    (lastOp.op = "write" /\ loc.timeval.given
         /\ ~(vtk.vtk_grid_type = "UnstructuredGrid" /\ loc.path = "return")) =>
        /\ result = "ok"
        /\ \E f \in StartsOf(xml.out, "FieldData") :
               /\ \E a \in (f + 1)..Len(xml.out) :
                      /\ IsTok(xml.out[a], "attr", "Name")
                      /\ xml.out[a].v = "TimeValue"
                      /\ \A m \in (f + 1)..a : ~IsTok(xml.out[m], "close", "FieldData")
               /\ \E p \in StartsOf(xml.out, "Piece") : f < p

\* C18: add_attributes fails and writes nothing unless a start tag is open;
\* when one is open it appends one k="v" pair per argument, in the order of
\* the call, and leaves the tag open and the element stack as it was.
C18_AddAttributes ==
    [][(lastOp'.op = "add_attributes" /\ nops' = nops + 1) =>
           IF xml.open_tag
           THEN /\ result' = "ok"
                /\ xml'.out = xml.out
                       \o [n \in 1..Len(TestKwargs) |-> TokAttr(TestKwargs[n])]
                /\ xml'.open_tag
                /\ xml'.current = xml.current
           ELSE /\ result' # "ok"
                /\ xml'.out = xml.out]_vars

C18_Witness ==
    /\ lastOp.op = "add_attributes" /\ result = "ok"
    /\ xml.open_tag
    /\ Len(xml.out) > Len(TestKwargs)
    /\ SubSeq(xml.out, Len(xml.out) - Len(TestKwargs) + 1, Len(xml.out))
           = [n \in 1..Len(TestKwargs) |-> TokAttr(TestKwargs[n])]

\* C19: close_element() without a tag, called while no start tag is open, is
\* rejected: it fails, writes no "/>" and leaves the element stack as it was.
C19_BareCloseRejected ==
    [][(lastOp'.op = "close_element" /\ lastOp'.arg = NoTag
            /\ nops' = nops + 1 /\ ~xml.open_tag) =>
           /\ result' # "ok"
           /\ xml'.out = xml.out
           /\ xml'.current = xml.current]_vars

\* indent_level is the number of elements on the open-element stack
IndentIsDepth(w) == w.indent_level = Len(w.current)

\* C29: a new writer has indent_level equal to the number of open elements,
\* and a call of open_element, close_element, add_attributes or write_line
\* that completes without error keeps them equal; write_line and
\* add_attributes change neither of them.  (So they are equal in every
\* state reached by such calls alone.)
C29_IndentIsDepth ==
    [][/\ lastOp.op = "__init__" => IndentIsDepth(xml)
       /\ (/\ nops' = nops + 1 /\ result' = "ok" /\ IndentIsDepth(xml)
           /\ lastOp'.op \in {"open_element", "close_element",
                              "add_attributes", "write_line"})
              => IndentIsDepth(xml')
       /\ (nops' = nops + 1 /\ lastOp'.op \in {"add_attributes", "write_line"})
              => /\ xml'.indent_level = xml.indent_level
                 /\ xml'.current = xml.current]_vars

\* three calls on a new writer, the last a close_element that completed
\* with two elements open: an element was opened inside VTKFile, a second
\* one inside it, and the second one closed
C29_Witness ==
    /\ nops = 3 /\ lastOp.op = "close_element" /\ result = "ok"
    /\ Len(xml.current) = 2 /\ xml.indent_level = 2
    /\ Len(Positions(xml.out, LAMBDA i : xml.out[i].k = "open")) = 3

\* C20: once final has completed the writer stays closed: every later call
\* of open_element, add_attributes, close_element, write_line, write_array
\* or final fails, and none of them adds anything to the output.
C20_ClosedIsTerminal ==
    [][(xml.f = "closed" /\ nops' = nops + 1) =>
           /\ result' # "ok"
           /\ xml'.out = xml.out
           /\ xml'.f = "closed"]_vars

C20_Witness ==
    /\ xml.f = "closed" /\ xml.closes = 1
    /\ lastOp.op = "write_array" /\ result = "ValueError"
    /\ Last(xml.out) = TokClose("VTKFile", 0)

\* C22: over any sequence of add_array and write calls on one Vtk object,
\* a write call writes exactly the arrays added since the write call before
\* it: after a write call that returned, the next add_array leaves its own
\* array alone in the buffer, and a write that follows directly has no array
\* to write.
C22_WritesOnlyNewArrays ==
    [][(lastOp.op = "write" /\ result = "ok") =>
           /\ lastOp'.op = "add_array" =>
                  Names(vtk'.arrays) \subseteq {lastOp'.arg}
           /\ lastOp'.op = "write" => loc'.arrays = <<>>]_vars

\* C23: for every grid representation, encoding, time value and point-scalar
\* mode, a write on a grid with an active cell drives the writer within its
\* protocol: no call fails (every add_attributes finds a start tag open,
\* every close_element names the top of the stack), all elements are closed
\* and final succeeds.
C23_WriteFollowsProtocol ==
    (lastOp.op = "write" /\ loc.path # "return"
         /\ \E i \in Cells : vtk.ibound.data[i] # 0) =>
        /\ result = "ok"
        /\ xml.err = "ok"
        /\ xml.current = <<>> /\ ~xml.open_tag
        /\ xml.f = "closed" /\ xml.closes = 1

\* what write_array added to the output
Added == SubSeq(xml.out, Len(arg.before.out) + 1, Len(xml.out))

\* the cells (numbered from 1, in row-major order) of layer lay (from 1)
\* that the mask of the call lets through
ActiveOfLayer(lay) ==
    SelectSeq([n \in 1..(NROW * NCOL) |-> (lay - 1) * NROW * NCOL + n],
              LAMBDA c : arg.actwcells.none \/ arg.actwcells.a.data[c] # 0)

\* C24: XmlWriterAscii.write_array emits one DataArray element with
\* format="ascii" and one text line per layer; the line of a layer holds one
\* value per cell of the layer that the mask lets through (every cell when
\* there is no mask), in row-major order, a not-a-number value as -1e9.
C24_AsciiLayerLines ==
    lastOp.op = "write_array" =>
        /\ result = "ok"
        /\ Len(Positions(Added, LAMBDA i : IsTok(Added[i], "open", "DataArray"))) = 1
        /\ Len(Positions(Added, LAMBDA i : IsTok(Added[i], "close", "DataArray"))) = 1
        /\ Last(Added) = TokClose("DataArray", arg.before.indent_level)
        /\ \E i \in 1..Len(Added) :
               IsTok(Added[i], "attr", "format") /\ Added[i].v = "ascii"
        /\ Len(Positions(Added, LAMBDA i : Added[i].k = "text")) = NLAY
        /\ \A lay \in 1..NLAY :
               Added[Positions(Added, LAMBDA i : Added[i].k = "text")[lay]].d
                   = [n \in 1..Len(ActiveOfLayer(lay)) |->
                         IF arg.array.data[ActiveOfLayer(lay)[n]] = NaN
                         THEN ASCII_NAN
                         ELSE arg.array.data[ActiveOfLayer(lay)[n]]]
        /\ xml.current = arg.before.current /\ ~xml.open_tag

\* a masked call whose first layer has a not-a-number value in a cell that
\* is written and a cell that is skipped
C24_Witness ==
    /\ lastOp.op = "write_array" /\ result = "ok"
    /\ ~arg.actwcells.none
    /\ arg.actwcells.a.data[1] = 0
    /\ arg.array.data[2] = NaN /\ arg.actwcells.a.data[2] # 0
    /\ Added[Positions(Added, LAMBDA i : Added[i].k = "text")[1]].d[1] = ASCII_NAN

\* the corners pt1, pt2, pt0, pt3 of the footprint of the cell [row, col]:
\* its x and y, and the grid-line intersection [row, col] it lies on
Footprint(row, col) ==
    << [x |-> 12 * col, y |-> 12 * (NROW - row - 1), row |-> row + 1, col |-> col],
       [x |-> 12 * (col + 1), y |-> 12 * (NROW - row - 1), row |-> row + 1, col |-> col + 1],
       [x |-> 12 * col, y |-> 12 * (NROW - row), row |-> row, col |-> col],
       [x |-> 12 * (col + 1), y |-> 12 * (NROW - row), row |-> row, col |-> col + 1] >>

\* z is the elevation of the corner c of the cell [lay, row, col] on the
\* layer surface surf: the elevation of the cell itself in flat mode, the
\* mean over the cells around the corner in smoothed mode
CornerElevation(z, surf, row, col, c) ==
    IF ~vtk.smooth THEN z = At3(vtk.modelgrid.top_botm, surf, row, col)
    ELSE z * Cardinality(DataNeighbours(vtk.modelgrid.top_botm, surf,
                                        Footprint(row, col)[c].row,
                                        Footprint(row, col)[c].col))
             = SumOver(vtk.modelgrid.top_botm, surf,
                       DataNeighbours(vtk.modelgrid.top_botm, surf,
                                      Footprint(row, col)[c].row,
                                      Footprint(row, col)[c].col))

\* the p-th point (from 0) of the point list made of the vertices of the
\* emitted cells, eight per cell
PointAt(p) == loc.conn[(p \div 8) + 1].verts[(p % 8) + 1]

\* C25: in flat and in smoothed mode the 8 vertices of an emitted cell are
\* the bottom face then the top face, each in the corner order pt1, pt2,
\* pt0, pt3 of the footprint, and the i-th point index of the cell is the
\* position of its i-th vertex in the point list; in flat mode the bottom
\* face lies at the cell's own bottom and the top face at its own top.
C25_VertexOrder ==
    lastOp.op = "get_3d_vertex_connectivity" =>
        \A n \in 1..Len(loc.conn) :
            LET e == loc.conn[n]
                lay == e.cellid \div (NROW * NCOL)
                row == (e.cellid % (NROW * NCOL)) \div NCOL
                col == e.cellid % NCOL
            IN  /\ Len(e.verts) = 8 /\ Len(e.ivert) = 8
                /\ \A face \in 0..1, c \in 1..4 :
                       /\ e.verts[4 * face + c][1] = Footprint(row, col)[c].x
                       /\ e.verts[4 * face + c][2] = Footprint(row, col)[c].y
                       /\ CornerElevation(e.verts[4 * face + c][3],
                                          lay + 1 - face, row, col, c)
                /\ \A m \in 1..8 : PointAt(e.ivert[m]) = e.verts[m]

\* flat mode, the first cell's top 12 above its neighbour's: the cell's top
\* face lies at its own top, the neighbour's at the neighbour's
C25_Witness ==
    /\ lastOp.op = "get_3d_vertex_connectivity" /\ ~vtk.smooth
    /\ ~vtk.modelgrid.is_rectilinear
    /\ Len(loc.conn) >= 2
    /\ loc.conn[1].cellid = 0 /\ loc.conn[2].cellid = 1
    /\ loc.conn[1].verts[5][3] = 12 * NLAY + 12
    /\ loc.conn[2].verts[5][3] = 12 * NLAY
    /\ loc.conn[1].verts[1][3] = 12 * (NLAY - 1)

\* the cells around the grid-line intersection [row, col] that lie in the
\* grid and hold real data in the array a
RealNeighbours(a, surf, row, col) ==
    {rc \in {row - 1, row} \X {col - 1, col} :
        /\ rc[1] \in 0..(vtk.nrow - 1) /\ rc[2] \in 0..(vtk.ncol - 1)
        /\ Real(CellOf(a, surf, rc[1], rc[2]))}

\* z is the average of the array a over the cells with real data around the
\* intersection [row, col] of the layer surface surf, the sentinel when
\* there is none
AverageOfReal(z, a, surf, row, col) ==
    IF RealNeighbours(a, surf, row, col) = {} THEN z = NANVAL
    ELSE /\ Real(z) /\ z # ASCII_NAN
         /\ z * Cardinality(RealNeighbours(a, surf, row, col))
                = SumOver(a, surf, RealNeighbours(a, surf, row, col))

\* the values V written to PointData for the array a: for unstructured
\* output eight per emitted cell, in the order of its vertices, otherwise
\* one per grid-line intersection, layers and rows reversed
PointValuesAverage(V, a) ==
    IF ~loc.actwcells3d.none
    THEN /\ Len(V) = 8 * Len(loc.cellids)
         /\ \A j \in 1..Len(loc.cellids), face \in 0..1, c \in 1..4 :
                AverageOfReal(
                    V[8 * (j - 1) + 4 * face + c], a,
                    (loc.cellids[j] \div (NROW * NCOL)) + 1 - face,
                    Footprint((loc.cellids[j] % (NROW * NCOL)) \div NCOL,
                              loc.cellids[j] % NCOL)[c].row,
                    Footprint((loc.cellids[j] % (NROW * NCOL)) \div NCOL,
                              loc.cellids[j] % NCOL)[c].col)
    ELSE /\ Len(V) = (NLAY + 1) * (NROW + 1) * (NCOL + 1)
         /\ \A l \in 0..NLAY, r \in 0..NROW, c \in 0..NCOL :
                AverageOfReal(V[(l * (NROW + 1) + r) * (NCOL + 1) + c + 1],
                              a, NLAY - l, NROW - r, c)

\* C26: in point-scalar mode, for every grid representation, each vertex
\* value written to PointData for a buffered array is the average over the
\* neighbouring cells that hold real data in that array, and the sentinel
\* when no neighbouring cell has data.
C26_PointDataAverages ==
    (lastOp.op = "write" /\ loc.path = "end" /\ vtk.point_scalars) =>
        \A n \in 1..Len(loc.arrays) :
            \E k \in 1..Len(DataArrays(xml)) :
                /\ ~DataArrays(xml)[k].cell
                /\ DataArrays(xml)[k].name = loc.arrays[n].name
                /\ PointValuesAverage(ValuesOf(xml, k), loc.arrays[n].a)

\* the same for unstructured output only
C26_Unstructured ==
    (~loc.made \/ ~loc.actwcells3d.none) => C26_PointDataAverages

\* ======================================= properties of the export functions
\* the record names that were added to the exporter in the passes made
ExportedNames ==
    UNION {Names(loc.writes[w].arrays) : w \in 1..Len(loc.writes)}

\* C21: in export_cbc a record that cannot be read as a full 3D array and
\* whose access method is not 6 ends the export with an error when it is
\* reached; it is neither skipped nor exported.
C21_UnsupportedRecordFatal ==
    [][(lastOp'.op = "export_cbc" /\ lastOp'.arg # "begin"
            /\ lastOp'.arg # "return"
            /\ \E n \in 1..Len(loc.keylist) :
                   /\ loc.keylist[n] \notin arg.cbb.full3D
                   /\ imeth_dict(arg.cbb, loc.keylist[n]) # 6
                   /\ has_record(arg.cbb, kstp_at(loc, loc.i),
                                 kper_at(loc, loc.i), loc.keylist[n])) =>
           /\ result' = "Exception"
           /\ lastOp'.arg = "raise"
           /\ loc'.done
           /\ loc'.writes = loc.writes
           /\ "DRAINS" \notin Names(vtk'.arrays)]_vars

C21_Witness ==
    /\ lastOp = Call("export_cbc", "raise")
    /\ result = "Exception"
    /\ "DRAINS" \in {loc.keylist[n] : n \in 1..Len(loc.keylist)}
    /\ imeth_dict(arg.cbb, "DRAINS") = 5
    /\ loc.writes = <<>>

\* the (kstp, kper) pairs listed in the argument
ListedPairs == {arg.kstpkper.pairs[n] : n \in 1..Len(arg.kstpkper.pairs)}

\* C27: with kstpkper given as a list of (kstp, kper) tuples, export_heads
\* and export_cbc export exactly the listed pairs: one write call and one
\* DataSet entry per listed pair, none for a pair that is not listed.
C27_ExactlyListedPairs ==
    (loc.made /\ arg.kstpkper.kind = "list") =>
        /\ \A w \in 1..Len(loc.writes) :
               <<loc.writes[w].kstp, loc.writes[w].kper>> \in ListedPairs
        /\ \A d \in 1..Len(loc.pvd) :
               <<loc.pvd[d].kstp, loc.pvd[d].kper>> \in ListedPairs
        /\ lastOp.arg = "return" =>
               /\ Len(loc.writes) = Len(arg.kstpkper.pairs)
               /\ Len(loc.pvd) = Len(arg.kstpkper.pairs)

\* C28: in every pass of export_cbc an array is added under a record name
\* only if data of that record was retrieved in that pass; an array that
\* was retrieved for another record or in an earlier pass is not added
\* again.
C28_OnlyRetrievedAdded ==
    [][(lastOp'.op = "export_cbc" /\ lastOp'.arg = "pass") =>
           \A name \in Names(Last(loc'.writes).arrays) :
               has_record(arg.cbb, kstp_at(loc, loc.i), kper_at(loc, loc.i),
                          name)]_vars

\* ================================================= properties of ModflowHyd
\* C30: constructing ModflowHyd with obsdata given as a list succeeds if and
\* only if len(obsdata) equals nhyd: with equal length (the default call
\* ModflowHyd(m) included) the constructor completes, stores nhyd rows and
\* adds the package to the model once; with unequal length it fails with
\* RuntimeError and the package is not added.
C30_ListLengthDecides ==
    (lastOp.op = "ModflowHyd" /\ arg.obsdata.kind = "list") =>
        IF Len(arg.obsdata.rows) = arg.nhyd
        THEN /\ result = "ok"
             /\ loc.hyd.made
             /\ Len(loc.hyd.obsdata.rows) = arg.nhyd
             /\ Cardinality({n \in 1..Len(loc.packagelist) :
                                loc.packagelist[n] = "HYD"}) = 1
        ELSE /\ result = "RuntimeError"
             /\ \A n \in 1..Len(loc.packagelist) : loc.packagelist[n] # "HYD"

\* no call of the constructor completes: each ends with UnboundLocalError
C30_NeverCompletes == lastOp.op = "ModflowHyd" => result = "UnboundLocalError"

====
